---- MODULE Spec2Model ----
(***************************************************************************)
(* A model of evennia/utils/evmenu.py: the EvMenu menu engine.             *)
(*                                                                         *)
(* One actor (the `caller`) uses menus.  Every constructed EvMenu object   *)
(* is kept in `engines`; the actor's ndb/db/cmdset state is `actor`.       *)
(* Each action is one whole call from the outside: a constructor call, a   *)
(* line of input routed by CmdEvMenuNode.func to parse_input, or a direct  *)
(* close_menu call.  Everything the call does (callbacks, nested goto,     *)
(* close_menu, the exit hook) is part of the same step; the messages sent  *)
(* and the functions called in the step are recorded in `last`.            *)
(*                                                                         *)
(* Text is modelled as sequences of symbols: a symbol is a letter, a word  *)
(* that the engine treats as a unit ("look", "menudebug"), a blank " " or  *)
(* a markup code "|r".                                                     *)
(***************************************************************************)
EXTENDS Integers, Sequences, FiniteSets, TLC

VARIABLES engines, actor, counts, last

vars == <<engines, actor, counts, last>>

(* Bounds of the model. *)
MaxEngines == 2
MaxDeco == 1

\* ------------------------------------------------------------------------
\* Text: str.strip(), str.lower(), strip_ansi()
\* ------------------------------------------------------------------------

Blank == " "
AnsiCode == "|r"

LowerSym(c) ==
  CASE c = "A" -> "a"
    [] c = "L" -> "l"
    [] c = "Q" -> "q"
    [] OTHER -> c

lower(s) == [i \in 1..Len(s) |-> LowerSym(s[i])]

RECURSIVE strip(_)
strip(s) ==
  IF s = <<>> THEN s
  ELSE IF Head(s) = Blank THEN strip(Tail(s))
  ELSE IF s[Len(s)] = Blank THEN strip(SubSeq(s, 1, Len(s) - 1))
  ELSE s

strip_ansi(s) == SelectSeq(s, LAMBDA c : c # AnsiCode)

\* cmd = strip_ansi(raw_string.strip().lower())
InputToken(raw_string) == strip_ansi(lower(strip(raw_string)))

\* strip_ansi(key).strip().lower()
OptionToken(key) == lower(strip(strip_ansi(key)))

\* str(d) for one digit
DigitStr(d) ==
  CASE d = 0 -> "0" [] d = 1 -> "1" [] d = 2 -> "2" [] d = 3 -> "3" [] d = 4 -> "4"
    [] d = 5 -> "5" [] d = 6 -> "6" [] d = 7 -> "7" [] d = 8 -> "8" [] OTHER -> "9"

\* str(inum + 1)
NumStr(n) == IF n < 10 THEN <<DigitStr(n)>> ELSE <<DigitStr(n \div 10), DigitStr(n % 10)>>

LookWords == {<<"look">>, <<"l">>}
HelpWords == {<<"help">>, <<"h">>}
QuitWords == {<<"quit">>, <<"q">>, <<"exit">>}
StartsWithMenudebug(cmd) == Len(cmd) >= 1 /\ cmd[1] = "menudebug"

\* ------------------------------------------------------------------------
\* Python values that cross the engine's interfaces
\* ------------------------------------------------------------------------

\* A keyword-argument bag, or whatever value stands where one is expected.
\* k is the Python type; d the items of a dict; n the length of a list.
Dict(d) == [k |-> "dict", d |-> d, n |-> 0]
EmptyDict == Dict({})
ListVal(n) == [k |-> "list", d |-> {}, n |-> n]
NoneKw == [k |-> "None", d |-> {}, n |-> 0]
IntVal == [k |-> "int", d |-> {}, n |-> 0]

Truthy(kw) ==
  CASE kw.k = "dict" -> kw.d # {}
    [] kw.k = "list" -> kw.n > 0
    [] kw.k = "None" -> FALSE
    [] OTHER -> TRUE

DictSet(d, key, val) == {p \in d : p[1] # key} \cup {<<key, val>>}
DictHas(d, key) == \E p \in d : p[1] = key
DictGet(d, key) == (CHOOSE p \in d : p[1] = key)[2]

\* A goto/exec target: nothing, a node name, or a callable.
NoTarget == [t |-> "none", v |-> ""]
Name(n) == [t |-> "name", v |-> n]
Fn(f) == [t |-> "call", v |-> f]

\* A goto/exec directive as written in an option dict.
Absent == [form |-> "absent", tgt |-> NoTarget, kw |-> EmptyDict]
Bare(tgt) == [form |-> "bare", tgt |-> tgt, kw |-> EmptyDict]
Pair(tgt, kw) == [form |-> "pair", tgt |-> tgt, kw |-> kw]
Single(tgt) == [form |-> "single", tgt |-> tgt, kw |-> EmptyDict]

\* An option dict.  keyset = FALSE: no "key" entry.
Opt(keys, desc, goto, exec) ==
  [keyset |-> TRUE, keys |-> keys, desc |-> desc, goto |-> goto, exec |-> exec]
OptNoKey(desc, goto, exec) ==
  [keyset |-> FALSE, keys |-> <<>>, desc |-> desc, goto |-> goto, exec |-> exec]

DefaultKey == <<"_default">>

\* What a called function hands back: None, a string, or a tuple.
\* A node's (text, options) is a tuple whose second element is the options.
R(t, s, help, len, kw, opts) ==
  [t |-> t, s |-> s, help |-> help, len |-> len, kw |-> kw, opts |-> opts]
RNone == R("None", "", "", 0, NoneKw, <<>>)
RStr(s) == R("str", s, "", 0, NoneKw, <<>>)
RPair(s, kw) == R("tuple", s, "", 2, kw, <<>>)
RTuple1(s) == R("tuple", s, "", 1, NoneKw, <<>>)
\* (text, None)
RNodeEnd(text) == R("tuple", text, "", 2, NoneKw, <<>>)
\* ((text, help), [option, ...]); help = "": the text is a plain string
RNode(text, help, opts) == R("tuple", text, help, 2, ListVal(Len(opts)), opts)

\* None, or a value
NoneV == [some |-> FALSE]
Some(v) == [some |-> TRUE, v |-> v]

\* ------------------------------------------------------------------------
\* The menus run in the model: node functions and goto/exec callables
\* ------------------------------------------------------------------------

GK == Dict({<<"g", "1">>})
EK == Dict({<<"e", "1">>})
RK == Dict({<<"r", "1">>})

K(sym) == << <<sym>> >>

StartOptions ==
  << Opt(K("a"), "to n2", Bare(Name("n2")), Absent),
     Opt(K("l"), "to term", Bare(Name("term")), Absent),
     Opt(K("b"), "exec", Pair(Name("n2"), GK), Pair(Fn("ex_name"), EK)),
     Opt(K("c"), "abort", Bare(Fn("go_abort")), Absent),
     Opt(K("d"), "ghost", Bare(Name("ghost")), Absent),
     Opt(K("e"), "raise", Bare(Fn("go_raise")), Absent),
     Opt(<<DefaultKey>>, "", Bare(Name("n2")), Absent) >>

N2Options ==
  << Opt(K("a"), "to start", Bare(Name("start")), Absent),
     Opt(K("b"), "boom", Bare(Name("boom")), Absent),
     Opt(K("c"), "exec abort", Bare(Name("start")), Bare(Fn("ex_abort"))),
     Opt(K("d"), "empty", Bare(Name("empty")), Absent),
     Opt(K("e"), "exec pair", Pair(Fn("go_name"), GK), Bare(Fn("ex_pair"))),
     Opt(K("q"), "to n3", Bare(Name("n3")), Absent) >>

N3Options ==
  << Opt(K("a"), "again", Bare(Fn("go_none")), Absent),
     Opt(K("b"), "kerr", Bare(Name("kerr")), Absent),
     Opt(K("c"), "exec raise", Bare(Name("start")), Bare(Fn("ex_raise"))),
     Opt(K("d"), "menuerr", Bare(Fn("go_menuerr")), Absent),
     Opt(K("h"), "pair", Pair(Fn("go_pair"), GK), Absent),
     Opt(K("e"), "exec empty", Pair(Name("start"), GK), Bare(Fn("ex_empty"))),
     Opt(K("l"), "again", Bare(Fn("go_empty")), Absent),
     Opt(K("q"), "exec node", Bare(Name("start")), Bare(Name("n2"))),
     Opt(<<DefaultKey>>, "", Pair(Fn("go_name"), GK), Bare(Fn("ex_none"))) >>

AltOptions ==
  << Opt(K("a"), "finish", Bare(Name("fin")), Absent),
     Opt(K("e"), "exec empty", Bare(Name("fin")), Bare(Fn("ex_empty"))),
     Opt(K("c"), "halt", Bare(Name("halt")), Absent),
     Opt(K("d"), "exec halt", Bare(Name("start")), Bare(Name("halt"))),
     Opt(<<DefaultKey>>, "", Bare(Name("fin")), Absent),
     Opt(<<DefaultKey>>, "", Bare(Name("start")), Absent) >>

\* A node whose options have aliases written with capitals, blanks and
\* markup, an option without key, an option without goto and exec, and a
\* default option
KeysOptions ==
  << Opt(<< <<"A">>, <<Blank, "b", AnsiCode>> >>, "two", Bare(Name("two")), Absent),
     OptNoKey("again", Pair(Name("start"), GK), Absent),
     Opt(K("c"), "text only", Absent, Absent),
     Opt(<<DefaultKey>>, "", Bare(Name("two")), Bare(Fn("ex_none"))) >>

TwoOptions ==
  << OptNoKey("back", Bare(Name("start")), Absent),
     Opt(<< <<AnsiCode, "e">>, <<"z">> >>, "stay", Bare(Fn("go_none")), Absent),
     Opt(K("x"), "bad", Bare(Name("bad")), Absent) >>

\* Options whose second one gives its goto as (name, 5)
BadOptions ==
  << Opt(K("a"), "fine", Bare(Name("two")), Absent),
     Opt(K("b"), "bad", Pair(Name("two"), IntVal), Absent),
     Opt(K("c"), "fine too", Bare(Name("start")), Absent) >>

\* A menu whose goto and exec callables close the menu they are called by
ShutOptions ==
  << Opt(K("a"), "close, go on", Bare(Fn("go_close")), Absent),
     Opt(K("b"), "exec close", Bare(Name("after")), Bare(Fn("ex_close"))),
     Opt(K("c"), "close, stay", Bare(Fn("go_close_none")), Absent),
     Opt(K("d"), "go on", Bare(Name("after")), Absent) >>
AfterOptions == << Opt(K("a"), "back", Bare(Name("start")), Absent) >>

\* The menu with the list nodes: entry leads to them, with the page asked for
PageKw(index) == Dict({<<"optionpage_index", index>>})
EntryOptions ==
  << Opt(K("a"), "below", Pair(Name("index25"), PageKw("-1")), Absent),
     Opt(K("b"), "beyond", Pair(Name("index25"), PageKw("7")), Absent),
     Opt(K("c"), "second", Pair(Name("index25"), PageKw("1")), Absent),
     Opt(K("d"), "to node", Bare(Name("index25s")), Absent),
     Opt(K("e"), "nothing", Bare(Name("index0")), Absent),
     Opt(K("h"), "short", Pair(Name("index3"), PageKw("2")), Absent) >>
PickedOptions == << Opt(K("b"), "back", Bare(Name("entry")), Absent) >>

\* A function of the menu module: nargs = number of named positional
\* parameters, kwargs = whether it declares **kwargs, act = what its body
\* does ("ret": return `ret`; "raise": raise `exc`; "close": call
\* caller.ndb._evmenu.close_menu(), then return `ret`).
Def(nargs, kwargs, act, ret, exc) ==
  [nargs |-> nargs, kwargs |-> kwargs, act |-> act, ret |-> ret, exc |-> exc]
Returns(nargs, kwargs, ret) == Def(nargs, kwargs, "ret", ret, "none")
Raises(nargs, kwargs, exc) == Def(nargs, kwargs, "raise", RNone, exc)
Closes(nargs, kwargs, ret) == Def(nargs, kwargs, "close", ret, "none")

FuncDef(f) ==
  CASE f = "start" -> Returns(1, FALSE, RNode("T_start", "H_start", StartOptions))
    [] f = "n2" -> Returns(2, FALSE, RNode("T_n2", "", N2Options))
    [] f = "n3" -> Returns(2, TRUE, RNode("T_n3", "", N3Options))
    [] f = "term" -> Returns(1, TRUE, RNodeEnd("T_term"))
    [] f = "empty" -> Returns(1, FALSE, RNode("T_empty", "", <<>>))
    [] f = "boom" -> Raises(1, FALSE, "Exception")
    [] f = "kerr" -> Raises(2, TRUE, "KeyError")
    [] f = "alt_start" -> Returns(1, FALSE, RNode("T_alt", "", AltOptions))
    [] f = "alt_fin" -> Returns(1, FALSE, RStr("T_fin"))
    [] f = "alt_halt" -> Raises(1, FALSE, "EvMenuGotoAbortMessage")
    [] f = "keys_start" -> Returns(1, FALSE, RNode("T_keys", "", KeysOptions))
    [] f = "keys_two" -> Returns(2, TRUE, RNode("T_two", "", TwoOptions))
    [] f = "keys_bad" -> Returns(1, FALSE, RNode("T_bad", "", BadOptions))
    [] f = "ex_name" -> Returns(2, TRUE, RStr("n3"))
    [] f = "ex_pair" -> Returns(1, FALSE, RPair("n3", RK))
    [] f = "ex_none" -> Returns(1, FALSE, RNone)
    [] f = "ex_empty" -> Returns(1, FALSE, RStr(""))
    [] f = "ex_abort" -> Raises(1, FALSE, "EvMenuGotoAbortMessage")
    [] f = "ex_raise" -> Raises(2, FALSE, "Exception")
    [] f = "go_name" -> Returns(2, TRUE, RStr("n2"))
    [] f = "go_pair" -> Returns(1, TRUE, RPair("start", RK))
    [] f = "go_none" -> Returns(1, FALSE, RNone)
    [] f = "go_empty" -> Returns(2, FALSE, RStr(""))
    [] f = "go_abort" -> Raises(2, FALSE, "EvMenuGotoAbortMessage")
    [] f = "go_raise" -> Raises(1, FALSE, "Exception")
    [] f = "go_menuerr" -> Raises(1, TRUE, "EvMenuError")
    [] f = "run" -> Returns(2, TRUE, RStr("next"))
    [] f = "shut_start" -> Returns(1, FALSE, RNode("T_shut", "", ShutOptions))
    [] f = "shut_after" -> Returns(2, TRUE, RNode("T_after", "", AfterOptions))
    [] f = "go_close" -> Closes(2, TRUE, RStr("after"))
    [] f = "go_close_none" -> Closes(1, FALSE, RNone)
    [] f = "ex_close" -> Closes(1, FALSE, RNone)
    [] f \in {"_generated_node", "_generated_goto_func", "_generated_input_goto_func"} ->
         Returns(2, TRUE, RNone)
    [] f \in {"index25", "index25s", "index3", "index0"} -> Returns(2, TRUE, RNone)
    [] f \in {"_select_parser.index25", "_select_parser.index25s", "_select_parser.index3",
              "_select_parser.index0"} -> Returns(2, TRUE, RNone)
    [] f = "lambda_none" -> Returns(1, FALSE, RNone)
    [] f = "sel" -> Returns(2, TRUE, RStr("picked"))
    [] f = "sel_none" -> Returns(2, FALSE, RNone)
    [] f = "entry" -> Returns(1, FALSE, RNode("T_entry", "", EntryOptions))
    [] f = "picked" -> Returns(2, TRUE, RNode("T_picked", "", PickedOptions))
    [] OTHER -> Raises(0, FALSE, "EvMenuError")

NodeFuncs == {"start", "n2", "n3", "term", "empty", "boom", "kerr", "alt_start", "alt_fin"}
Callables == {"ex_name", "ex_pair", "ex_none", "ex_empty", "ex_abort", "ex_raise",
              "go_name", "go_pair", "go_none", "go_empty", "go_abort", "go_raise",
              "go_menuerr"}

\* menudata given as a dict {nodename: function}
MenuData(menu) ==
  CASE menu = "main" ->
         { <<"start", "start">>, <<"n2", "n2">>, <<"n3", "n3">>, <<"term", "term">>,
           <<"empty", "empty">>, <<"boom", "boom">>, <<"kerr", "kerr">> }
    [] menu = "alt" -> { <<"start", "alt_start">>, <<"fin", "alt_fin">>, <<"halt", "alt_halt">> }
    [] menu = "template" ->
         { <<"start", "_generated_node">>, <<"next", "_generated_node">>,
           <<"pick", "_generated_node">>, <<"fin", "_generated_node">> }
    [] menu = "shut" -> { <<"start", "shut_start">>, <<"after", "shut_after">> }
    [] menu = "keys" -> { <<"start", "keys_start">>, <<"two", "keys_two">>, <<"bad", "keys_bad">> }
    [] menu = "lists" ->
         { <<"entry", "entry">>, <<"picked", "picked">>, <<"index25", "index25">>,
           <<"index25s", "index25s">>, <<"index3", "index3">>, <<"index0", "index0">> }
    [] menu \in {"other", "go()", "go(a=1)", "run()", "run(a=1)", "run(a=1, b=2)"} ->
         { <<"start", "_generated_node">>, <<"next", "_generated_node">> }
    [] OTHER -> {}

\* len(name) of the node names in use
NameLen(n) ==
  CASE n \in {"n2", "n3"} -> 2
    [] n = "fin" -> 3
    [] n \in {"term", "boom", "kerr"} -> 4
    [] OTHER -> 5

\* ------------------------------------------------------------------------
\* The state of one call in progress: the objects, what was sent and
\* called so far, the exception in flight and the value just returned
\* ------------------------------------------------------------------------

MsgEv(e, what, arg) ==
  [ev |-> "msg", what |-> what, eng |-> e, arg |-> arg,
   raw |-> FALSE, haskw |-> FALSE, kw |-> NoneKw]
CallEv(e, role, f, raw, haskw, kw) ==
  [ev |-> "call", what |-> role, eng |-> e, arg |-> f,
   raw |-> raw, haskw |-> haskw, kw |-> kw]
StepEv(e, what) ==
  [ev |-> "step", what |-> what, eng |-> e, arg |-> "",
   raw |-> FALSE, haskw |-> FALSE, kw |-> NoneKw]

Log(w, event) == [w EXCEPT !.trace = Append(@, event)]
Raise(w, exc) == [w EXCEPT !.exc = exc, !.ret = RNone]
Return(w, ret) == [w EXCEPT !.ret = ret]
Caught(w) == [w EXCEPT !.exc = "none", !.ret = RNone]

\* EvMenu.msg: self.caller.msg(text=(txt, {"type": "menu"}), session=self._session)
msg(w, e, what, arg) == Log(w, MsgEv(e, what, arg))

\* ------------------------------------------------------------------------
\* Menu templates: parse_menu_template and the generated functions
\* ------------------------------------------------------------------------

\* One line of an `## options` section, split as _parse_options splits it:
\* `key[;alias]: [desc ->] goto`, or `> pattern: [desc ->] goto` when the
\* first key starts with the input marker.  A line without ":" and a
\* comment line are skipped.
KeyLine(keys, desc, goto_) ==
  [comment |-> FALSE, sep |-> TRUE, marker |-> FALSE, keys |-> keys, pattern |-> <<>>,
   desc |-> desc, goto |-> goto_]
PatternLine(pattern, goto_) ==
  [comment |-> FALSE, sep |-> TRUE, marker |-> TRUE, keys |-> <<>>, pattern |-> pattern,
   desc |-> "", goto |-> goto_]
CommentLine ==
  [comment |-> TRUE, sep |-> TRUE, marker |-> FALSE, keys |-> <<>>, pattern |-> <<>>,
   desc |-> "", goto |-> ""]

TemplateNode(name, text, lines) == [name |-> name, text |-> text, lines |-> lines]

\* The menu template of the model:
\*   ## node start          ## node next            ## node pick
\*   T_start                T_next                  T_pick
\*   ## options             ## options              ## options
\*     # comment              > [0-9]+: start         > *ing: start
\*     1: Go on -> next       >: start                > [0-9]+: next
\*     2: pick                > *: fin
\*     > yes*: next                                 ## node fin
\*                                                  T_fin
Template ==
  << TemplateNode("start", "T_start",
                  << CommentLine,
                     KeyLine(K("1"), "Go on", "next"),
                     KeyLine(K("2"), "", "pick"),
                     PatternLine(<<"y", "e", "s", "*">>, "next") >>),
     TemplateNode("next", "T_next",
                  << PatternLine(<<"[0-9]", "+">>, "start"),
                     PatternLine(<<>>, "start"),
                     PatternLine(<<"*">>, "fin") >>),
     TemplateNode("pick", "T_pick",
                  << PatternLine(<<"*", "i", "n", "g">>, "start"),
                     PatternLine(<<"[0-9]", "+">>, "next") >>),
     TemplateNode("fin", "T_fin", <<>>) >>

\* A second template, with other texts under the same node names:
\*   ## node start          ## node next
\*   O_start                O_next
\*   ## options
\*     1: next
OtherTemplate ==
  << TemplateNode("start", "O_start", << KeyLine(K("1"), "", "next") >>),
     TemplateNode("next", "O_next", <<>>) >>

\* Templates with a call-syntax target `go(...)`: on an option line of
\* the node start, or on a pattern line of it
CallTargets ==
  { "go()", "go(a=1)", "go(5)", "go(a=1, 5)", "go(evmenu_goto=x)", "go(evmenu_gotomap=x)",
    "go(_current_nodename=x)", "go(evmenu_current_nodename=x)",
    "go( evmenu_goto_callables = x)", "run()", "run(a=1)", "run(a=1, b=2)" }
CallTemplate(goto_) ==
  << TemplateNode("start", "C_start",
                  << KeyLine(K("1"), "Go on", "next"), KeyLine(K("2"), "Call", goto_) >>),
     TemplateNode("next", "C_next", <<>>) >>
PatternCallTemplate ==
  << TemplateNode("start", "P_start",
                  << KeyLine(K("1"), "Go on", "next"), PatternLine(<<"*">>, "go(5)") >>),
     TemplateNode("next", "P_next", <<>>) >>

\* The templates by name; a call template is named by its target
TemplateNames == {"template", "other", "pattern go(5)"} \cup CallTargets
TemplateOf(tid) ==
  CASE tid = "template" -> Template
    [] tid = "other" -> OtherTemplate
    [] tid = "pattern go(5)" -> PatternCallTemplate
    [] OTHER -> CallTemplate(tid)

\* One argument of a call-syntax target, `key=value` or not
KwArg(key, value) == [eq |-> TRUE, key |-> key, value |-> value]
PosArg(text) == [eq |-> FALSE, key |-> "", value |-> text]

\* _RE_CALLABLE.match(goto): whether the target has call syntax, and the
\* parts of match.group("kwargs").split(","), each split at "=" and stripped
CallSyntax(goto_) ==
  CASE goto_ = "go()" -> [match |-> TRUE, funcname |-> "go", kwargs |-> <<>>]
    [] goto_ = "go(a=1)" -> [match |-> TRUE, funcname |-> "go", kwargs |-> <<KwArg("a", "1")>>]
    [] goto_ = "go(5)" -> [match |-> TRUE, funcname |-> "go", kwargs |-> <<PosArg("5")>>]
    [] goto_ = "go(a=1, 5)" ->
         [match |-> TRUE, funcname |-> "go", kwargs |-> <<KwArg("a", "1"), PosArg("5")>>]
    [] goto_ = "go(evmenu_goto=x)" ->
         [match |-> TRUE, funcname |-> "go", kwargs |-> <<KwArg("evmenu_goto", "x")>>]
    [] goto_ = "go(evmenu_gotomap=x)" ->
         [match |-> TRUE, funcname |-> "go", kwargs |-> <<KwArg("evmenu_gotomap", "x")>>]
    [] goto_ = "go(_current_nodename=x)" ->
         [match |-> TRUE, funcname |-> "go", kwargs |-> <<KwArg("_current_nodename", "x")>>]
    [] goto_ = "go(evmenu_current_nodename=x)" ->
         [match |-> TRUE, funcname |-> "go",
          kwargs |-> <<KwArg("evmenu_current_nodename", "x")>>]
    [] goto_ = "go( evmenu_goto_callables = x)" ->
         [match |-> TRUE, funcname |-> "go",
          kwargs |-> <<KwArg("evmenu_goto_callables", "x")>>]
    [] goto_ = "run()" -> [match |-> TRUE, funcname |-> "run", kwargs |-> <<>>]
    [] goto_ = "run(a=1)" ->
         [match |-> TRUE, funcname |-> "run", kwargs |-> <<KwArg("a", "1")>>]
    [] goto_ = "run(a=1, b=2)" ->
         [match |-> TRUE, funcname |-> "run",
          kwargs |-> <<KwArg("a", "1"), KwArg("b", "2")>>]
    [] OTHER -> [match |-> FALSE, funcname |-> "", kwargs |-> <<>>]

\* The keyword names the templating system keeps for itself
ReservedKwargs ==
  {"evmenu_goto", "evmenu_gotomap", "_current_nodename", "evmenu_current_nodename",
   "evmenu_goto_callables"}

\* A validation that lets every argument through (the variant
\* C21_TemplateValidation rules out)
_validate_kwarg_any(kwarg) == TRUE

\* parse_menu_template._validate_kwarg; FALSE: RuntimeError is raised
_validate_kwarg(kwarg) == kwarg.eq /\ kwarg.key \notin ReservedKwargs

\* The `validate callable` step of _parse_options for one line
ValidLine(line) ==
  (line.comment \/ ~line.sep) \/
    \A i \in 1..Len(CallSyntax(line.goto).kwargs) :
      _validate_kwarg(CallSyntax(line.goto).kwargs[i])

\* inputparsemap[pattern] = goto: a dict keeps the place of a key it has
RECURSIVE PutPattern(_, _, _)
PutPattern(map, pattern, goto_) ==
  IF map = <<>> THEN << <<pattern, goto_>> >>
  ELSE IF Head(map)[1] = pattern THEN << <<pattern, goto_>> >> \o Tail(map)
  ELSE <<Head(map)>> \o PutPattern(Tail(map), pattern, goto_)

\* The kwargs the compiled options carry
GotoFuncKwargs(nodename, goto_) ==
  Dict({ <<"evmenu_goto", goto_>>, <<"evmenu_current_nodename", nodename>>,
         <<"evmenu_goto_callables", "goto_callables">> })
\* evmenu_gotomap refers to the inputparsemap of the node
InputFuncKwargs(nodename) ==
  Dict({ <<"evmenu_gotomap", nodename>>, <<"evmenu_current_nodename", nodename>>,
         <<"evmenu_goto_callables", "goto_callables">> })

\* The loop of _parse_options over the lines: the options and the
\* inputparsemap collected so far
ParseLine(acc, nodename, line) ==
  IF line.comment \/ ~line.sep THEN acc
  ELSE IF line.marker
  THEN [acc EXCEPT !.inputparsemap = PutPattern(@, line.pattern, line.goto)]
  ELSE [acc EXCEPT !.options =
          Append(@, Opt(line.keys, line.desc,
                        Pair(Fn("_generated_goto_func"), GotoFuncKwargs(nodename, line.goto)),
                        Absent))]

RECURSIVE ParseLines(_, _, _, _)
ParseLines(acc, nodename, lines, i) ==
  IF i > Len(lines) THEN acc
  ELSE (CHOOSE val \in { ParseLines(next, nodename, lines, i + 1) :
            next \in {ParseLine(acc, nodename, lines[i])}} : TRUE)

\* A compiler that leaves out the `_default` option (the variant
\* C17_TemplateRoundTrip rules out)
DefaultOptionOf_none(nodename, parsed) == parsed.options

\* `if inputparsemap: options.append({"key": "_default", ...})`
DefaultOptionOf(nodename, parsed) ==
  IF parsed.inputparsemap # <<>>
  THEN Append(parsed.options,
              Opt(<<DefaultKey>>, "",
                  Pair(Fn("_generated_input_goto_func"), InputFuncKwargs(nodename)), Absent))
  ELSE parsed.options

\* parse_menu_template._parse_options
_parse_options(nodename, lines) ==
  (CHOOSE val \in { [options |-> DefaultOptionOf(nodename, parsed),
                        inputparsemap |-> parsed.inputparsemap] :
       parsed \in {ParseLines([options |-> <<>>, inputparsemap |-> <<>>], nodename, lines, 1)}} : TRUE)

\* parse_menu_template._parse: content_map, {nodename: (text, options)}
ContentMap(tid) ==
  { <<TemplateOf(tid)[i].name,
      [text |-> TemplateOf(tid)[i].text,
       options |-> _parse_options(TemplateOf(tid)[i].name, TemplateOf(tid)[i].lines).options]>>
    : i \in 1..Len(TemplateOf(tid)) }

\* The inputparsemap compiled for a node
GotoMap(nodename) ==
  _parse_options(nodename,
                 Template[CHOOSE i \in 1..Len(Template) : Template[i].name = nodename].lines
                ).inputparsemap

Digits == {"0", "1", "2", "3", "4", "5", "6", "7", "8", "9"}

\* fnmatch(name, pattern): the whole name, "*" any run of characters,
\* "?" any character, "[0-9]" a digit, anything else itself
GlobChar(p, c) == p = "?" \/ (p = "[0-9]" /\ c \in Digits) \/ p = c
RECURSIVE fnmatch(_, _)
fnmatch(name, pattern) ==
  IF pattern = <<>> THEN name = <<>>
  ELSE IF Head(pattern) = "*"
  THEN fnmatch(name, Tail(pattern)) \/ (name # <<>> /\ fnmatch(Tail(name), pattern))
  ELSE name # <<>> /\ GlobChar(Head(pattern), Head(name)) /\ fnmatch(Tail(name), Tail(pattern))

\* re.compile(pattern) fails when a repeat has nothing to repeat
Repeats == {"*", "+"}
RegexValid(pattern) ==
  \A i \in 1..Len(pattern) :
    pattern[i] \in Repeats => (i > 1 /\ pattern[i - 1] \notin Repeats)

\* re.match(pattern, string): a prefix of the string, "x*" and "x+" repeats
\* of x, "." any character, "[0-9]" a digit, anything else itself
RegexChar(p, c) == p = "." \/ (p = "[0-9]" /\ c \in Digits) \/ p = c
RECURSIVE re_match(_, _)
re_match(pattern, string) ==
  IF pattern = <<>> THEN TRUE
  ELSE IF Len(pattern) >= 2 /\ pattern[2] = "*"
  THEN \/ re_match(SubSeq(pattern, 3, Len(pattern)), string)
       \/ (string # <<>> /\ RegexChar(pattern[1], Head(string))
             /\ re_match(pattern, Tail(string)))
  ELSE IF Len(pattern) >= 2 /\ pattern[2] = "+"
  THEN string # <<>> /\ RegexChar(pattern[1], Head(string))
         /\ re_match(<<pattern[1], "*">> \o SubSeq(pattern, 3, Len(pattern)), Tail(string))
  ELSE string # <<>> /\ RegexChar(Head(pattern), Head(string))
         /\ re_match(Tail(pattern), Tail(string))

\* raw_string.strip("\n")
RECURSIVE strip_newline(_)
strip_newline(s) ==
  IF s = <<>> THEN s
  ELSE IF Head(s) = "\n" THEN strip_newline(Tail(s))
  ELSE IF s[Len(s)] = "\n" THEN strip_newline(SubSeq(s, 1, Len(s) - 1))
  ELSE s

\* The goto_callables every template of the model is parsed with:
\* {"run": run}
GotoCallables == {"run"}

\* match.group("kwargs").split(","): the empty string splits into one
\* empty part
Parts(goto_) ==
  IF CallSyntax(goto_).kwargs = <<>> THEN <<PosArg("")>> ELSE CallSyntax(goto_).kwargs

\* The loop of _process_callable over the parts from part i on: a part
\* `key=value` is put into kwargs, and the callable is called at the end
\* of every round with the kwargs as they are by then
RECURSIVE CallableLoop(_, _, _, _, _, _, _)
CallableLoop(w, e, f, raw_string, kwargs, parts, i) ==
  IF i > Len(parts) \/ w.exc # "none" THEN w
  ELSE IF parts[i].eq /\ parts[i].key \in ReservedKwargs THEN Raise(w, "RuntimeError")
  ELSE (CHOOSE val \in {
              CallableLoop(IF FuncDef(f).act = "raise"
                           THEN Raise(Log(w, CallEv(e, "callable", f, TRUE, TRUE, kw)),
                                      FuncDef(f).exc)
                           ELSE Return(Log(w, CallEv(e, "callable", f, TRUE, TRUE, kw)),
                                       FuncDef(f).ret),
                           e, f, raw_string, kw, parts, i + 1) :
            kw \in {IF parts[i].eq
                    THEN Dict(DictSet(kwargs.d, parts[i].key, parts[i].value))
                    ELSE kwargs}} : TRUE)

\* _process_callable: a target `funcname(...)` whose funcname is in
\* goto_callables is replaced by what the callable returns
_process_callable(w, e, goto_, raw_string, current_nodename, kwargs) ==
  IF CallSyntax(goto_).match /\ CallSyntax(goto_).funcname \in GotoCallables
  THEN (CHOOSE val \in {
              CASE res.exc # "none" -> res
                [] res.ret.t = "None" ->
                     Return(res, RPair("", Dict({<<"generated_nodename", current_nodename>>})))
                [] OTHER ->
                     Return(res, RPair(res.ret.s, Dict({<<"generated_nodename", res.ret.s>>}))) :
            res \in {CallableLoop(w, e, CallSyntax(goto_).funcname, raw_string, kwargs,
                                  Parts(goto_), 1)}} : TRUE)
  ELSE Return(w, RPair(goto_, Dict({<<"generated_nodename", goto_>>})))

_generated_goto_func(w, e, raw_string, kwargs) ==
  _process_callable(w, e, DictGet(kwargs.d, "evmenu_goto"), raw_string,
                    DictGet(kwargs.d, "evmenu_current_nodename"), kwargs)

\* The first loop of _generated_input_goto_func: the place of the first
\* pattern that matches as a glob, 0 when there is none
GlobPass(gotomap, string) ==
  IF \E i \in 1..Len(gotomap) : fnmatch(string, gotomap[i][1])
  THEN CHOOSE i \in 1..Len(gotomap) :
         /\ fnmatch(string, gotomap[i][1])
         /\ \A j \in 1..(i - 1) : ~fnmatch(string, gotomap[j][1])
  ELSE 0

\* The second loop: the place of the first pattern that matches as a
\* regex, 0 when there is none, -1 when re.match raised on the way
RECURSIVE RegexPass(_, _, _)
RegexPass(gotomap, string, i) ==
  IF i > Len(gotomap) THEN 0
  ELSE IF gotomap[i][1] = <<>> THEN RegexPass(gotomap, string, i + 1)
  ELSE IF ~RegexValid(gotomap[i][1]) THEN -1
  ELSE IF re_match(gotomap[i][1], string) THEN i
  ELSE RegexPass(gotomap, string, i + 1)

\* _generated_input_goto_func, from the gotomap and the stripped input on
InputGoto(w, e, gotomap, raw_string, current_nodename, kwargs) ==
  IF GlobPass(gotomap, lower(raw_string)) > 0
  THEN _process_callable(Log(w, StepEv(e, "glob_match")), e,
                         gotomap[GlobPass(gotomap, lower(raw_string))][2], raw_string,
                         current_nodename, kwargs)
  ELSE IF RegexPass(gotomap, lower(raw_string), 1) > 0
  THEN _process_callable(Log(w, StepEv(e, "regex_match")), e,
                         gotomap[RegexPass(gotomap, lower(raw_string), 1)][2], raw_string,
                         current_nodename, kwargs)
  ELSE IF RegexPass(gotomap, lower(raw_string), 1) < 0
  THEN Raise(w, "re.error")
  ELSE [w EXCEPT !.exc = "EvMenuGotoAbortMessage", !.ret = RStr("HELP_NO_OPTION_MATCH")]

\* _generated_input_goto_func
_generated_input_goto_func(w, e, raw_string, kwargs) ==
  InputGoto(w, e, GotoMap(DictGet(kwargs.d, "evmenu_gotomap")),
            strip_newline(raw_string),
            DictGet(kwargs.d, "evmenu_current_nodename"), kwargs)

\* _generated_node: caller.db._evmenu_template_contents[kwargs["_current_nodename"]]
_generated_node(w, e, raw_string, kwargs) ==
  IF ~w.actor.evmenu_template_contents.some THEN Raise(w, "TypeError")
  ELSE IF ~DictHas(kwargs.d, "_current_nodename")
          \/ ~DictHas(ContentMap(w.actor.evmenu_template_contents.v),
                      DictGet(kwargs.d, "_current_nodename"))
  THEN Raise(w, "KeyError")
  ELSE (CHOOSE val \in { Return(w, RNode(content.text, "", content.options)) :
            content \in {DictGet(ContentMap(w.actor.evmenu_template_contents.v),
                    DictGet(kwargs.d, "_current_nodename"))}} : TRUE)

\* parse_menu_template: a line that fails the validation raises before
\* the content map is stored on the caller
parse_menu_template(w, tid) ==
  IF \E i \in 1..Len(TemplateOf(tid)) :
       \E j \in 1..Len(TemplateOf(tid)[i].lines) : ~ValidLine(TemplateOf(tid)[i].lines[j])
  THEN Raise(w, "RuntimeError")
  ELSE [w EXCEPT !.actor.evmenu_template_contents = Some(tid)]

\* ------------------------------------------------------------------------
\* list_node: the decorator that makes a node a multi-page list
\* ------------------------------------------------------------------------

ItemNames ==
  << "i1", "i2", "i3", "i4", "i5", "i6", "i7", "i8", "i9", "i10", "i11", "i12", "i13",
     "i14", "i15", "i16", "i17", "i18", "i19", "i20", "i21", "i22", "i23", "i24", "i25" >>

\* @list_node(option_generator, select, pagesize) on a node function that
\* returns (text, decorated): the decorated nodes of the menu
ListNodes == {"index25", "index25s", "index3", "index0"}
ListDef(f) ==
  CASE f = "index25" ->
         [option_list |-> ItemNames, pagesize |-> 10, select |-> Fn("sel"),
          text |-> "T_index25", decorated |-> << Opt(K("b"), "back", Bare(Name("entry")), Absent) >>]
    [] f = "index25s" ->
         [option_list |-> ItemNames, pagesize |-> 10, select |-> Name("picked"),
          text |-> "T_index25s", decorated |-> <<>>]
    [] f = "index3" ->
         [option_list |-> SubSeq(ItemNames, 1, 3), pagesize |-> 2, select |-> Fn("sel_none"),
          text |-> "T_index3",
          decorated |-> << Opt(K("b"), "back", Bare(Fn("go_pair")), Absent) >>]
    [] OTHER ->
         [option_list |-> <<>>, pagesize |-> 10, select |-> Fn("sel"),
          text |-> "T_index0", decorated |-> << Opt(K("b"), "back", Bare(Name("entry")), Absent) >>]

\* The _select_parser closure of a decorated node
ParserOf(f) ==
  CASE f = "index25" -> "_select_parser.index25"
    [] f = "index25s" -> "_select_parser.index25s"
    [] f = "index3" -> "_select_parser.index3"
    [] OTHER -> "_select_parser.index0"
Parsers == {ParserOf(f) : f \in ListNodes}
ListOf(parser) == CHOOSE f \in ListNodes : ParserOf(f) = parser

\* pages = [option_list[ind : ind + pagesize] for ind in range(0, nall_options, pagesize)]
PageCount(option_list, pagesize) == (Len(option_list) + pagesize - 1) \div pagesize
PageAt(option_list, pagesize, k) ==
  SubSeq(option_list, k * pagesize + 1,
         IF (k + 1) * pagesize < Len(option_list) THEN (k + 1) * pagesize ELSE Len(option_list))

\* An integer as a keyword value
IndexStr(i) == IF i < 0 THEN "-1" ELSE DigitStr(i)
IndexOf(str) == CHOOSE i \in -1..9 : IndexStr(i) = str

\* A list of items as a keyword value: the empty list, or the items of a
\* page of a list, named by the first item and the number of items
PageName(page) == IF page = <<>> THEN <<"[]", 0>> ELSE <<page[1], Len(page)>>
PageValue(name) ==
  IF name[2] = 0 THEN <<>>
  ELSE SubSeq(ItemNames, CHOOSE j \in 1..Len(ItemNames) : ItemNames[j] = name[1],
              (CHOOSE j \in 1..Len(ItemNames) : ItemNames[j] = name[1]) + name[2] - 1)

\* page_index = max(0, min(npages - 1, kwargs.get("optionpage_index", 0)))
Requested(kwargs) ==
  IF DictHas(kwargs.d, "optionpage_index") THEN IndexOf(DictGet(kwargs.d, "optionpage_index"))
  ELSE 0
Min(a, b) == IF a < b THEN a ELSE b
Max(a, b) == IF a > b THEN a ELSE b
\* A page index that is taken as it is asked for (the variant
\* C25_PageIndexClamped rules out)
PageIndex_unclamped(npages, kwargs) == Max(0, Requested(kwargs))

\* The page shown: the requested index, clamped to the pages there are
PageIndex(npages, kwargs) == Max(0, Min(npages - 1, Requested(kwargs)))

AvailableChoices(page) == Dict({<<"available_choices", PageName(page)>>})

\* {"desc": opt, "goto": (_select_parser, {"available_choices": page})} for opt in page
ItemOptions(f, page) ==
  [k \in 1..Len(page) |->
     OptNoKey(page[k], Pair(Fn(ParserOf(f)), AvailableChoices(page)), Absent)]

CurrentKey == << <<AnsiCode, "current", AnsiCode>>, <<"c">> >>
PreviousKey == << <<AnsiCode, "p", AnsiCode, "revious page", AnsiCode>>, <<"p">> >>
NextKey == << <<AnsiCode, "n", AnsiCode, "ext page", AnsiCode>>, <<"n">> >>

\* A list node that offers `next` on every page (the variant
\* C24_Pagination rules out)
NextControl_always(npages, page_index) ==
  << Opt(NextKey, "", Pair(Fn("lambda_none"), PageKw(IndexStr(page_index + 1))), Absent) >>

\* if page_index < npages - 1: the `next page` option
NextControl(npages, page_index) ==
  IF page_index < npages - 1
  THEN << Opt(NextKey, "", Pair(Fn("lambda_none"), PageKw(IndexStr(page_index + 1))), Absent) >>
  ELSE <<>>

\* if page_index > 0: the `previous page` option
PreviousControl(npages, page_index) ==
  IF page_index > 0
  THEN << Opt(PreviousKey, "", Pair(Fn("lambda_none"), PageKw(IndexStr(page_index - 1))), Absent) >>
  ELSE <<>>

\* if npages > 1: current, previous, next
PagingOptions(npages, page_index) ==
  IF npages > 1
  THEN << Opt(CurrentKey, "page", Pair(Fn("lambda_none"), PageKw(IndexStr(page_index))), Absent) >>
         \o PreviousControl(npages, page_index) \o NextControl(npages, page_index)
  ELSE <<>>

\* An option of the decorated node with available_choices put into the
\* kwargs of its goto, or of its exec when it has no goto
InjectInto(directive, page) ==
  CASE directive.form = "bare" /\ directive.tgt.t = "call" ->
         Pair(directive.tgt, AvailableChoices(page))
    [] directive.form = "pair" /\ directive.kw.k = "dict" ->
         Pair(directive.tgt, Dict(DictSet(directive.kw.d, "available_choices", PageName(page))))
    [] directive.form = "single" -> Pair(directive.tgt, AvailableChoices(page))
    [] OTHER -> directive
Inject(eopt, page) ==
  IF eopt.goto.form # "absent" THEN [eopt EXCEPT !.goto = InjectInto(@, page)]
  ELSE IF eopt.exec.form # "absent" THEN [eopt EXCEPT !.exec = InjectInto(@, page)]
  ELSE eopt

\* list_node.decorator._list_node, from the pages on
ListPage(w, f, npages, page_index, page) ==
  Return(w, RNode(ListDef(f).text, "",
                  ItemOptions(f, page) \o PagingOptions(npages, page_index)
                    \o [k \in 1..Len(ListDef(f).decorated) |->
                          Inject(ListDef(f).decorated[k], page)]))

\* list_node.decorator._list_node
_list_node(w, e, f, raw_string, kwargs) ==
  IF ListDef(f).option_list # <<>>
  THEN (CHOOSE val \in {
              ListPage(w, f, PageCount(ListDef(f).option_list, ListDef(f).pagesize), page_index,
                       PageAt(ListDef(f).option_list, ListDef(f).pagesize, page_index)) :
            page_index \in {PageIndex(PageCount(ListDef(f).option_list, ListDef(f).pagesize), kwargs)}} : TRUE)
  ELSE ListPage(w, f, 0, 0, <<>>)

\* int(text): the value of a run of digits; ok = FALSE: ValueError
DigitVal(c) == CHOOSE d \in 0..9 : DigitStr(d) = c
RECURSIVE DigitsVal(_)
DigitsVal(text) ==
  IF text = <<>> THEN 0 ELSE 10 * DigitsVal(SubSeq(text, 1, Len(text) - 1)) + DigitVal(text[Len(text)])
int(text) ==
  IF text # <<>> /\ \A i \in 1..Len(text) : text[i] \in Digits
  THEN [ok |-> TRUE, n |-> DigitsVal(text)]
  ELSE [ok |-> FALSE, n |-> 0]

\* The selection handed to `select`, and the choices handed with it
SelectEv(e, f, selection, haskw, choices) ==
  [ev |-> "select", what |-> selection, eng |-> e, arg |-> f,
   raw |-> FALSE, haskw |-> haskw, kw |-> IF haskw THEN choices ELSE NoneKw]

\* The `else` branch of _select_parser: select is a callable, called with
\* the selection (an exception of it is logged), or the name of a node
Select(w, e, select, selection, available_choices) ==
  IF select.t = "call"
  THEN (CHOOSE val \in { IF FuncDef(select.v).act = "raise" THEN Return(w1, RNone)
                        ELSE Return(w1, FuncDef(select.v).ret) :
            w1 \in {Log(w, SelectEv(e, select.v, selection, FuncDef(select.v).kwargs,
                            AvailableChoices(available_choices)))}} : TRUE)
  ELSE IF select.t = "name" /\ select.v # "" THEN Return(w, RStr(select.v))
  ELSE Return(w, RNone)

\* list_node.decorator._select_parser
_select_parser(w, e, f, raw_string, kwargs) ==
  (CHOOSE val \in {
         (CHOOSE val \in {
                IF ~int(strip(raw_string)).ok
                   \/ index >= Len(available_choices) \/ index < -Len(available_choices)
                THEN Return(Log(w, MsgEv(e, "invalid_choice", "")), RNone)
                ELSE Select(w, e, ListDef(f).select,
                            available_choices[IF index >= 0 THEN index + 1
                                              ELSE Len(available_choices) + index + 1],
                            available_choices) :
              index \in {int(strip(raw_string)).n - 1}} : TRUE) :
       available_choices \in {IF DictHas(kwargs.d, "available_choices")
       THEN PageValue(DictGet(kwargs.d, "available_choices")) ELSE <<>>}} : TRUE)

\* The body of a menu function, run with the arguments _safe_call gave it.
RECURSIVE close_menu(_, _)
CallBody(w, e, f, raw_string, kwargs) ==
  CASE f = "_generated_node" -> _generated_node(w, e, raw_string, kwargs)
    [] f \in ListNodes -> _list_node(w, e, f, raw_string, kwargs)
    [] f \in Parsers -> _select_parser(w, e, ListOf(f), raw_string, kwargs)
    [] f = "_generated_goto_func" -> _generated_goto_func(w, e, raw_string, kwargs)
    [] f = "_generated_input_goto_func" -> _generated_input_goto_func(w, e, raw_string, kwargs)
    [] FuncDef(f).act = "raise" -> Raise(w, FuncDef(f).exc)
    [] FuncDef(f).act = "close" -> Return(close_menu(w, e), FuncDef(f).ret)
    [] OTHER -> Return(w, FuncDef(f).ret)

\* callback(self.caller[, raw_string][, **kwargs]): the call with the
\* arguments that are given to it
Call(w, e, role, callback, with_raw, with_kwargs, raw_string, kwargs) ==
  CallBody(Log(w, CallEv(e, role, callback, with_raw, with_kwargs,
                         IF with_kwargs THEN kwargs ELSE NoneKw)),
           e, callback, raw_string, kwargs)

\* A _safe_call that hands raw_string and **kwargs to every callback (the
\* variant C13_AdapterShapes rules out)
CallWith_everything(w, e, role, callback, raw_string, kwargs) ==
  Call(w, e, role, callback, TRUE, TRUE, raw_string, kwargs)

\* The call _safe_call makes: the caller always, raw_string when a second
\* positional parameter is declared, **kwargs when they are declared
CallWith(w, e, role, callback, raw_string, kwargs) ==
  Call(w, e, role, callback, FuncDef(callback).nargs > 1, FuncDef(callback).kwargs,
       raw_string, kwargs)

\* EvMenu._safe_call
_safe_call(w, e, role, callback, raw_string, kwargs) ==
  (CHOOSE val \in { IF res.exc = "EvMenuError"
                    THEN msg(res, e, "ERR_GENERAL", callback)
                    ELSE res :
       res \in {IF FuncDef(callback).nargs <= 0 THEN Raise(w, "EvMenuError")
       ELSE CallWith(w, e, role, callback, raw_string, kwargs)}} : TRUE)

\* The (nodetext, options) pair _execute_node makes of a node's return value
NodeResult(ret) ==
  IF ret.t = "tuple" /\ ret.len > 1
  THEN [textt |-> IF ret.help # "" THEN "tuple" ELSE "str", text |-> ret.s,
        help |-> ret.help, options |-> ret.kw, opts |-> ret.opts]
  ELSE [textt |-> ret.t, text |-> ret.s, help |-> "", options |-> NoneKw, opts |-> <<>>]

\* self._menutree of menu object e
Tree(w, e) == MenuData(w.engines[e].menutree)

\* EvMenu._execute_node; on success w.node holds the (nodetext, options) pair
_execute_node(w, e, role, nodename, raw_string, kwargs) ==
  IF ~nodename.some \/ ~DictHas(Tree(w, e), nodename.v)
  THEN Raise(msg(w, e, "ERR_NOT_IMPLEMENTED", IF nodename.some THEN nodename.v ELSE "None"),
             "EvMenuError")
  ELSE (CHOOSE val \in {
              CASE res.exc = "none" -> [res EXCEPT !.node = NodeResult(res.ret)]
                [] res.exc = "KeyError" ->
                     Raise(msg(res, e, "ERR_NOT_IMPLEMENTED", nodename.v), "EvMenuError")
                [] OTHER -> msg(res, e, "ERR_GENERAL", nodename.v) :
            res \in {_safe_call(w, e, role, DictGet(Tree(w, e), nodename.v), raw_string,
                       Dict(DictSet(kwargs.d, "_current_nodename", nodename.v)))}} : TRUE)

\* hasattr(x, "__getitem__")
HasGetItem(kw) == kw.k \in {"dict", "list", "str"}

\* bool(directive target)
TargetTruthy(tgt) == tgt.t = "call" \/ (tgt.t = "name" /\ tgt.v # "")

Entry(goto_, goto_kwargs, execute, exec_kwargs) ==
  [goto |-> goto_, goto_kwargs |-> goto_kwargs, exec |-> execute, exec_kwargs |-> exec_kwargs]

\* One directive of extract_goto_exec: its target, its kwargs, and whether
\* the kwargs passed the __getitem__ test
ExtractOne(directive) ==
  CASE directive.form = "pair" ->
         [tgt |-> directive.tgt, kw |-> directive.kw, ok |-> HasGetItem(directive.kw)]
    [] directive.form = "absent" -> [tgt |-> NoTarget, kw |-> EmptyDict, ok |-> TRUE]
    [] OTHER -> [tgt |-> directive.tgt, kw |-> EmptyDict, ok |-> TRUE]

\* EvMenu.extract_goto_exec; ok = FALSE: EvMenuError is raised
extract_goto_exec(nodename, option_dict) ==
  [ok |-> ExtractOne(option_dict.goto).ok /\ ExtractOne(option_dict.exec).ok,
   entry |-> Entry(ExtractOne(option_dict.goto).tgt, ExtractOne(option_dict.goto).kw,
                   ExtractOne(option_dict.exec).tgt, ExtractOne(option_dict.exec).kw)]

\* ------------------------------------------------------------------------
\* The EvMenu object and the caller
\* ------------------------------------------------------------------------

Engines == 1..MaxEngines

\* An EvMenu object that has not been constructed.  cmdset_permanent is the
\* `permanent` argument its cmdset was added with.
NoEngine ==
  [made |-> FALSE, menutree |-> "", startnode |-> "", persistent |-> FALSE,
   quitting |-> FALSE, auto_quit |-> FALSE, auto_look |-> FALSE, auto_help |-> FALSE,
   debug_mode |-> FALSE, cmd_on_exit |-> "None",
   default |-> NoneV, nodetext |-> NoneV, helptext |-> NoneV, options |-> NoneV,
   nodename |-> NoneV, node_kwargs |-> EmptyDict, attrs |-> {},
   cmdset_permanent |-> FALSE]

\* caller.ndb._evmenu (0: unset), the EvMenuCmdSets on caller.cmdset, and
\* the caller's saved attributes
NoActor ==
  [evmenu |-> 0, cmdsets |-> 0, menutree_saved |-> NoneV,
   menutree_saved_startnode |-> NoneV, evmenu_template_contents |-> NoneV]

\* How often the parts of close_menu ran for a menu object
NoCounts == [cmd_on_exit |-> 0, cmdset_remove |-> 0, detach |-> 0]

\* The exit command or callback given as cmd_on_exit, called as
\* cmd_on_exit(caller, menu).  "look": the command string "look";
\* "reclose": a callback that calls menu.close_menu() itself.
cmd_on_exit(w, e) ==
  (CHOOSE val \in { IF w1.engines[e].cmd_on_exit = "reclose" THEN close_menu(w1, e) ELSE w1 :
       w1 \in {[Log(w, CallEv(e, "cmd_on_exit", w.engines[e].cmd_on_exit, FALSE, FALSE, NoneKw))
          EXCEPT !.counts[e].cmd_on_exit = @ + 1]}} : TRUE)

\* close_menu up to the exit hook: the flag, the cmdset, the caller's
\* attributes
Teardown(w, e) ==
  [Log(Log(w, StepEv(e, "cmdset_remove")), StepEv(e, "detach")) EXCEPT
     !.engines[e].quitting = TRUE,
     !.actor.cmdsets = IF @ > 0 THEN @ - 1 ELSE 0,
     !.counts[e].cmdset_remove = @ + 1,
     !.actor.evmenu = 0,
     !.counts[e].detach = @ + 1,
     !.actor.menutree_saved = IF w.engines[e].persistent THEN NoneV ELSE @,
     !.actor.menutree_saved_startnode = IF w.engines[e].persistent THEN NoneV ELSE @]

\* The guarded part of close_menu
CloseBody(w, e) ==
  (CHOOSE val \in {
         (CHOOSE val \in { IF w4.exc # "none" THEN w4
                          ELSE [Log(w4, StepEv(e, "template_remove")) EXCEPT
                                  !.actor.evmenu_template_contents = NoneV] :
              w4 \in {IF w3.engines[e].cmd_on_exit # "None" THEN cmd_on_exit(w3, e) ELSE w3}} : TRUE) :
       w3 \in {Teardown(w, e)}} : TRUE)

\* A close_menu whose guard lets a second request through (the variant
\* C4_CloseOnce rules out)
close_menu_twice(w, e) ==
  IF w.counts[e].detach < 2 THEN CloseBody(w, e) ELSE w

\* EvMenu.close_menu
close_menu(w, e) ==
  IF ~w.engines[e].quitting THEN CloseBody(w, e) ELSE w

\* EvMenu.display_nodetext, EvMenu.display_helptext
display_nodetext(w, e) ==
  msg(w, e, "nodetext",
      IF w.engines[e].nodetext.some THEN w.engines[e].nodetext.v.text ELSE "None")
display_helptext(w, e) ==
  msg(w, e, "helptext",
      IF w.engines[e].helptext.some THEN w.engines[e].helptext.v ELSE "None")

\* ------------------------------------------------------------------------
\* EvMenu.goto
\* ------------------------------------------------------------------------

IsDefaultOption(dic) == dic.keyset /\ \E j \in 1..Len(dic.keys) : dic.keys[j] = DefaultKey

\* The keys of the option at 0-based position inum
OptionKeys(dic, inum) ==
  IF IsDefaultOption(dic) THEN SelectSeq(dic.keys, LAMBDA key : key # DefaultKey)
  ELSE IF dic.keyset THEN dic.keys
  ELSE <<NumStr(inum + 1)>>

\* A table that holds only the first key of an option and none of its
\* aliases (the variant C34_OptionTable rules out)
OptionTokens_first(dic, inum) ==
  {OptionToken(OptionKeys(dic, inum)[j]) : j \in 1..Len(OptionKeys(dic, inum)) \cap {1}}

\* The keys of the option as they are entered in self.options
OptionTokens(dic, inum) ==
  {OptionToken(OptionKeys(dic, inum)[j]) : j \in 1..Len(OptionKeys(dic, inum))}

\* `if goto or execute`
Reachable(entry) == TargetTruthy(entry.goto) \/ TargetTruthy(entry.exec)

\* One round of the loop over the options: acc holds self.options,
\* self.default, display_options and whether extract_goto_exec raised
OptionStep(acc, dic, inum, nodename) ==
  IF ~extract_goto_exec(nodename, dic).ok THEN [acc EXCEPT !.ok = FALSE]
  ELSE [ok |-> TRUE,
        default |-> IF IsDefaultOption(dic)
                    THEN Some(extract_goto_exec(nodename, dic).entry)
                    ELSE acc.default,
        display |-> IF OptionKeys(dic, inum) # <<>>
                    THEN Append(acc.display, <<OptionKeys(dic, inum)[1], dic.desc>>)
                    ELSE acc.display,
        options |-> IF Reachable(extract_goto_exec(nodename, dic).entry)
                    THEN {p \in acc.options : p[1] \notin OptionTokens(dic, inum)}
                           \cup {<<t, extract_goto_exec(nodename, dic).entry>>
                                 : t \in OptionTokens(dic, inum)}
                    ELSE acc.options]

RECURSIVE OptionLoop(_, _, _, _)
OptionLoop(acc, opts, inum, nodename) ==
  IF inum >= Len(opts) \/ ~acc.ok THEN acc
  ELSE (CHOOSE val \in { OptionLoop(next, opts, inum + 1, nodename) :
            next \in {OptionStep(acc, opts[inum + 1], inum, nodename)}} : TRUE)

\* bool(options) after `options = [options] if isinstance(options, dict) else options`
OptionsTruthy(node) == node.options.k = "dict" \/ (node.options.k = "list" /\ node.options.n > 0)

\* self.options = {}; self.default = None; and the loop when there are options
OptionTable(node, nodename) ==
  IF OptionsTruthy(node)
  THEN OptionLoop([ok |-> TRUE, default |-> NoneV, display |-> <<>>, options |-> {}],
                  node.opts, 0, nodename)
  ELSE [ok |-> TRUE, default |-> NoneV, display |-> <<>>, options |-> {}]

\* The help text kept for the node
HelpFor(eng, node) ==
  IF node.help # "" THEN node.help
  ELSE IF OptionsTruthy(node)
       THEN (IF eng.auto_quit THEN "HELP_FULL" ELSE "HELP_NO_QUIT")
       ELSE (IF eng.auto_quit THEN "HELP_NO_OPTIONS" ELSE "HELP_NO_OPTIONS_NO_QUIT")

\* The assignments of goto after a node has run
Assign(w, e, acc, nodename, raw_string, kwargs) ==
  IF ~acc.ok
  THEN Raise([w EXCEPT !.engines[e].options = Some(acc.options),
                       !.engines[e].default = acc.default,
                       !.actor.menutree_saved_startnode =
                          IF w.engines[e].persistent
                          THEN Some(<<nodename.v, raw_string, kwargs>>) ELSE @],
             "EvMenuError")
  ELSE [w EXCEPT !.engines[e].options = Some(acc.options),
                 !.engines[e].default = acc.default,
                 !.engines[e].nodetext = Some([text |-> w.node.text, options |-> acc.display]),
                 !.engines[e].node_kwargs = kwargs,
                 !.engines[e].nodename = nodename,
                 !.engines[e].helptext = Some(HelpFor(w.engines[e], w.node)),
                 !.actor.menutree_saved_startnode =
                    IF w.engines[e].persistent
                    THEN Some(<<nodename.v, raw_string, kwargs>>) ELSE @]

\* A goto that closes the menu only for options that are None (the variant
\* C2_Terminality rules out)
CloseIfNoOptions_none_only(w, e) ==
  IF w.node.options.k = "None" THEN close_menu(w, e) ELSE w

\* `if not options: self.close_menu()`
CloseIfNoOptions(w, e) ==
  IF ~OptionsTruthy(w.node) THEN close_menu(w, e) ELSE w

\* goto, from the node's return values on: validation, the option table,
\* the display and the close of a node without options
GotoDisplay(w, e, nodename, raw_string, kwargs) ==
  (CHOOSE val \in {
         (CHOOSE val \in { IF w3.exc # "none" THEN w3
                          ELSE (CHOOSE val \in { CloseIfNoOptions(w4, e) :
                                    w4 \in {display_nodetext(w3, e)}} : TRUE) :
              w3 \in {Assign(w, e, acc, nodename, raw_string, kwargs)}} : TRUE) :
       acc \in {OptionTable(w.node, nodename.v)}} : TRUE)

\* A goto that records the new node name before it runs the node (the
\* variant C8_FailedNodeKeepsState rules out)
GotoNode_early(w, e, nodename, raw_string, kwargs) ==
  (CHOOSE val \in {
         CASE res.exc = "EvMenuError" -> Caught(Log(res, StepEv(e, "goto_failed")))
           [] res.exc # "none" -> Log(res, StepEv(e, "goto_failed"))
           [] OTHER -> GotoDisplay(res, e, nodename, raw_string, kwargs) :
       res \in {_execute_node([w EXCEPT !.engines[e].nodename = nodename], e, "node", nodename,
                     raw_string, kwargs)}} : TRUE)

\* goto, once the node name is known: run the node, return on EvMenuError
GotoNode(w, e, nodename, raw_string, kwargs) ==
  (CHOOSE val \in {
         CASE res.exc = "EvMenuError" -> Caught(Log(res, StepEv(e, "goto_failed")))
           [] res.exc # "none" -> Log(res, StepEv(e, "goto_failed"))
           [] OTHER -> GotoDisplay(res, e, nodename, raw_string, kwargs) :
       res \in {_execute_node(w, e, "node", nodename, raw_string, kwargs)}} : TRUE)

\* A goto that takes what the goto callable returned as the node name even
\* when it returned nothing (the variant C15_EmptyGotoReruns rules out)
GotoTarget_no_fallback(w, e, kwargs) ==
  [ok |-> ~(w.ret.t = "tuple" /\ (~(w.ret.len > 1) \/ w.ret.kw.k # "dict")),
   name |-> Some(w.ret.s),
   kwargs |-> IF w.ret.t = "tuple" THEN w.ret.kw ELSE kwargs]

\* What a goto callable returned: the node name (the current node when it
\* returned nothing), the kwargs, and whether the return value is valid
GotoTarget(w, e, kwargs) ==
  [ok |-> ~(w.ret.t = "tuple" /\ (~(w.ret.len > 1) \/ w.ret.kw.k # "dict")),
   name |-> IF w.ret.t = "None" \/ w.ret.s = "" THEN w.engines[e].nodename ELSE Some(w.ret.s),
   kwargs |-> IF w.ret.t = "tuple" THEN w.ret.kw ELSE kwargs]

\* EvMenu.goto
goto(w, e, nodename, raw_string, kwargs) ==
  (CHOOSE val \in {
         (CHOOSE val \in {
                IF res.exc # "none" THEN res
                ELSE IF ~target.ok THEN Raise(res, "EvMenuError")
                ELSE GotoNode(res, e, target.name, raw_string, target.kwargs) :
              target \in {IF nodename.t = "call" THEN GotoTarget(res, e, kwargs)
                          ELSE [ok |-> TRUE, name |-> Some(nodename.v),
                                kwargs |-> kwargs]}} : TRUE) :
       res \in {IF nodename.t = "call"
                THEN _safe_call(w, e, "goto", nodename.v, raw_string, kwargs)
                ELSE w}} : TRUE)

\* ------------------------------------------------------------------------
\* exec, then goto
\* ------------------------------------------------------------------------

\* `**(kwargs if kwargs else {})`: ok = FALSE is the TypeError of ** on a
\* value that is no mapping
Splat(kw) ==
  IF ~Truthy(kw) THEN [ok |-> TRUE, kw |-> EmptyDict]
  ELSE [ok |-> kw.k = "dict", kw |-> kw]

\* The end of run_exec: a string result becomes the replacement goto
ExecResult(w, e, ret, kwargs) ==
  IF ret.t = "str"
  THEN IF ret.s = ""
       THEN Return(w, IF w.engines[e].nodename.some
                      THEN RStr(w.engines[e].nodename.v) ELSE RNone)
       ELSE Return(w, RPair(ret.s, kwargs))
  ELSE Return(w, RNone)

\* The except clause of run_exec
ExecFailed(w, e, nodename) == Caught(msg(w, e, "exec_error", nodename.v))

\* EvMenu.run_exec
run_exec(w, e, nodename, raw_string, kwargs) ==
  IF nodename.t = "call"
  THEN (CHOOSE val \in {
              CASE res.exc = "EvMenuError" -> ExecFailed(res, e, nodename)
                [] res.exc # "none" -> res
                [] res.ret.t = "tuple" /\ (~(res.ret.len > 1) \/ res.ret.kw.k # "dict") ->
                     ExecFailed(res, e, nodename)
                [] res.ret.t = "tuple" -> ExecResult(res, e, RStr(res.ret.s), res.ret.kw)
                [] OTHER -> ExecResult(res, e, res.ret, kwargs) :
            res \in {_safe_call(w, e, "exec", nodename.v, raw_string, kwargs)}} : TRUE)
  ELSE (CHOOSE val \in {
              CASE res.exc = "EvMenuError" -> ExecFailed(res, e, nodename)
                [] res.exc # "none" -> res
                [] OTHER -> ExecResult(res, e,
                                       IF res.node.textt = "str" THEN RStr(res.node.text)
                                       ELSE RNone,
                                       res.node.options) :
            res \in {_execute_node(w, e, "exec_node", Some(nodename.v), raw_string, kwargs)}} : TRUE)

\* The goto step of run_exec_then_goto
GotoStep(w, e, goto_, raw_string, goto_kwargs) ==
  IF ~TargetTruthy(goto_) THEN w
  ELSE IF ~Splat(goto_kwargs).ok THEN Raise(w, "TypeError")
  ELSE goto(Log(w, StepEv(e, "goto")), e, goto_, raw_string, Splat(goto_kwargs).kw)

\* A run_exec_then_goto that runs exec but keeps the declared goto (the
\* variant C3_ExecOverridesGoto rules out)
AfterExec_declared_goto(w, e, goto_, raw_string, goto_kwargs) ==
  IF w.exc # "none" THEN w ELSE GotoStep(w, e, goto_, raw_string, goto_kwargs)

\* `goto, goto_kwargs = self.run_exec(...) or (goto, goto_kwargs)`, then the
\* goto step.  A str result is unpacked into its characters: two of them
\* for a name of length two, an error for any other length.
AfterExec(w, e, goto_, raw_string, goto_kwargs) ==
  CASE w.exc # "none" -> w
    [] w.ret.t = "str" /\ NameLen(w.ret.s) # 2 -> Raise(w, "ValueError")
    [] OTHER ->
         GotoStep(w, e,
                  CASE w.ret.t = "str" -> Name("?")
                    [] w.ret.t = "tuple" -> Name(w.ret.s)
                    [] OTHER -> goto_,
                  raw_string,
                  CASE w.ret.t = "str" -> [k |-> "str", d |-> {}, n |-> 1]
                    [] w.ret.t = "tuple" -> w.ret.kw
                    [] OTHER -> goto_kwargs)

\* EvMenu.run_exec_then_goto
run_exec_then_goto(w, e, runexec, goto_, raw_string, runexec_kwargs, goto_kwargs) ==
  IF TargetTruthy(runexec) /\ ~Splat(runexec_kwargs).ok THEN Raise(w, "TypeError")
  ELSE (CHOOSE val \in { AfterExec(res, e, goto_, raw_string, goto_kwargs) :
            res \in {IF TargetTruthy(runexec)
                     THEN run_exec(w, e, runexec, raw_string, Splat(runexec_kwargs).kw)
                     ELSE Return(w, RNone)}} : TRUE)

\* ------------------------------------------------------------------------
\* EvMenu.parse_input
\* ------------------------------------------------------------------------

\* EvMenu.print_debug_info
print_debug_info(w, e, arg) == msg(w, e, "debug", "")

\* A parse_input that tests the built-in words before the option table
\* (the variant C1_PriorityOrder rules out)
Branch_builtins_first(eng, cmd) ==
  CASE eng.auto_look /\ cmd \in LookWords -> "look"
    [] eng.auto_help /\ cmd \in HelpWords -> "help"
    [] eng.auto_quit /\ cmd \in QuitWords -> "quit"
    [] eng.debug_mode /\ StartsWithMenudebug(cmd) -> "menudebug"
    [] eng.options.some /\ DictHas(eng.options.v, cmd) -> "option"
    [] eng.default.some -> "default"
    [] OTHER -> "nomatch"

\* A parse_input that shows the node again for input it does not recognise
\* (the variant C7_NoMatchNoDefault rules out)
Branch_redisplay(eng, cmd) ==
  CASE eng.options.some /\ DictHas(eng.options.v, cmd) -> "option"
    [] eng.auto_look /\ cmd \in LookWords -> "look"
    [] eng.auto_help /\ cmd \in HelpWords -> "help"
    [] eng.auto_quit /\ cmd \in QuitWords -> "quit"
    [] eng.debug_mode /\ StartsWithMenudebug(cmd) -> "menudebug"
    [] eng.default.some -> "default"
    [] OTHER -> "look"

\* Which branch of parse_input a token takes
Branch(eng, cmd) ==
  CASE eng.options.some /\ DictHas(eng.options.v, cmd) -> "option"
    [] eng.auto_look /\ cmd \in LookWords -> "look"
    [] eng.auto_help /\ cmd \in HelpWords -> "help"
    [] eng.auto_quit /\ cmd \in QuitWords -> "quit"
    [] eng.debug_mode /\ StartsWithMenudebug(cmd) -> "menudebug"
    [] eng.default.some -> "default"
    [] OTHER -> "nomatch"

RunEntry(w, e, entry, raw_string) ==
  run_exec_then_goto(w, e, entry.exec, entry.goto, raw_string,
                     entry.exec_kwargs, entry.goto_kwargs)

\* The try block of parse_input
Dispatch(w, e, cmd, raw_string, branch) ==
  CASE branch \in {"option", "default"} ->
         RunEntry(Log(w, StepEv(e, branch)), e,
                  IF branch = "option" THEN DictGet(w.engines[e].options.v, cmd)
                  ELSE w.engines[e].default.v,
                  raw_string)
    [] branch = "look" -> display_nodetext(Log(w, StepEv(e, branch)), e)
    [] branch = "help" -> display_helptext(Log(w, StepEv(e, branch)), e)
    [] branch = "quit" -> close_menu(Log(w, StepEv(e, branch)), e)
    [] branch = "menudebug" -> print_debug_info(Log(w, StepEv(e, branch)), e, strip(Tail(cmd)))
    [] OTHER -> msg(Log(w, StepEv(e, branch)), e, "HELP_NO_OPTION_MATCH", "")

\* A parse_input that runs the current node again after an abort (the
\* variant C6_AbortKeepsNode rules out)
parse_input_rerun(w, e, raw_string) ==
  (CHOOSE val \in { IF res.exc = "EvMenuGotoAbortMessage"
                    THEN GotoNode(Caught(msg(res, e, "abort_message", "")), e,
                                  res.engines[e].nodename, raw_string, EmptyDict)
                    ELSE res :
       res \in {Dispatch(w, e, InputToken(raw_string), raw_string,
                Branch(w.engines[e], InputToken(raw_string)))}} : TRUE)

\* EvMenu.parse_input
parse_input(w, e, raw_string) ==
  (CHOOSE val \in { IF res.exc = "EvMenuGotoAbortMessage"
                    THEN Caught(msg(res, e, "abort_message", res.ret.s))
                    ELSE res :
       res \in {Dispatch(w, e, InputToken(raw_string), raw_string,
                Branch(w.engines[e], InputToken(raw_string)))}} : TRUE)

\* ------------------------------------------------------------------------
\* EvMenu.__init__
\* ------------------------------------------------------------------------

Args(menudata, startnode, auto_quit, auto_look, auto_help, hook, persistent, debug) ==
  [menudata |-> menudata, startnode |-> startnode, auto_quit |-> auto_quit,
   auto_look |-> auto_look, auto_help |-> auto_help, cmd_on_exit |-> hook,
   persistent |-> persistent, debug |-> debug, extra |-> {},
   startnode_input |-> <<>>, startnode_kwargs |-> EmptyDict]

\* The call with extra keyword arguments (**kwargs of __init__): a set of
\* <<name, value>>
WithKwargs(a, extra) == [a EXCEPT !.extra = extra]

NoArgs == Args("", "", FALSE, FALSE, FALSE, "None", FALSE, FALSE)

\* The attributes set before the menu is stored on the caller
InitFields(a) ==
  [NoEngine EXCEPT !.made = TRUE, !.startnode = a.startnode, !.menutree = a.menudata,
                   !.persistent = IF ~a.debug THEN a.persistent ELSE FALSE,
                   !.quitting = FALSE,
                   !.auto_quit = a.auto_quit, !.auto_look = a.auto_look,
                   !.auto_help = a.auto_help, !.debug_mode = a.debug,
                   !.cmd_on_exit = a.cmd_on_exit]

\* The names __init__ refuses as extra keyword arguments
ReservedNames ==
  {"_startnode", "_menutree", "_session", "_persistent", "cmd_on_exit", "default",
   "nodetext", "helptext", "options", "cmdset_mergetype", "auto_quit"}

\* reserved_clash
ReservedClash(a) == {p[1] : p \in a.extra} \cap ReservedNames

\* The value an extra keyword argument has, None when it is not given
Given(a, name) ==
  IF \E p \in a.extra : p[1] = name
  THEN Some((CHOOSE p \in a.extra : p[1] = name)[2])
  ELSE NoneV

\* `for key, val in kwargs.items(): setattr(self, key, val)`
SetAttrs(eng, a) ==
  [eng EXCEPT
     !.nodename = IF Given(a, "nodename").some THEN Given(a, "nodename") ELSE @,
     !.quitting = IF Given(a, "_quitting").some THEN Given(a, "_quitting").v = "True" ELSE @,
     !.auto_look = IF Given(a, "auto_look").some THEN Given(a, "auto_look").v = "True" ELSE @,
     !.attrs = {p \in a.extra : p[1] \notin {"nodename", "_quitting", "auto_look"}}]

\* `if self.caller.ndb._evmenu: try: ....close_menu() except Exception: pass`
CloseOld(w) ==
  IF w.actor.evmenu # 0 THEN Caught(close_menu(w, w.actor.evmenu)) ELSE w

\* The call with startnode_input = (raw_string, kwargs)
WithInput(a, raw_string, kwargs) ==
  [a EXCEPT !.startnode_input = raw_string, !.startnode_kwargs = kwargs]

\* An extra keyword argument whose value is a lambda cannot be pickled, and
\* caller.attributes.add raises on a calldict that holds one
Picklable(a) == \A p \in a.extra : p[2] # "lambda"

\* calldict: the arguments that are saved (debug and startnode_input are not
\* among them)
CallDict(a) ==
  [a EXCEPT !.debug = FALSE, !.startnode_input = <<>>, !.startnode_kwargs = EmptyDict]

\* `if persistent:`, the try block that saves the menu on the caller
Save(w, e, a) ==
  IF ~a.persistent THEN w
  ELSE IF Picklable(a)
  THEN [w EXCEPT !.actor.menutree_saved = Some(CallDict(a)),
                 !.actor.menutree_saved_startnode =
                    Some(<<a.startnode, a.startnode_input, a.startnode_kwargs>>)]
  ELSE msg(w, e, "persistent_saving_error", "")

\* The local variable `persistent` after the try block
Permanent(a) == a.persistent /\ Picklable(a)

\* Storing the menu on the caller, saving it when persistent, adding the cmdset
Attach(w, e, a) ==
  [Log(Save(Log([w EXCEPT !.actor.evmenu = e], StepEv(e, "attach")), e, a),
       StepEv(e, "cmdset_add")) EXCEPT
     !.engines[e].cmdset_permanent = Permanent(a),
     !.actor.cmdsets = @ + 1]

\* reserved_startnode_kwargs and the clash with the kwargs of startnode_input
ReservedStartnodeKwargs == {"nodename", "raw_string"}
ClashingKwargs(a) == {p[1] : p \in a.startnode_kwargs.d} \cap ReservedStartnodeKwargs

\* The end of __init__: the start node is run with startnode_input
Start(w, e, a) ==
  IF ClashingKwargs(a) # {} THEN Raise(w, "RuntimeError")
  ELSE goto(w, e, Name(a.startnode), a.startnode_input, a.startnode_kwargs)

\* An __init__ that looks for the start node only after it has closed the
\* old menu and stored itself on the caller (the variant
\* C10_MissingStartNode rules out)
EvMenu_init_late(w, e, a) ==
  (CHOOSE val \in {
         (CHOOSE val \in { IF ~DictHas(MenuData(a.menudata), a.startnode)
                          THEN Raise(w2, "EvMenuError")
                          ELSE Start(w2, e, a) :
              w2 \in {Attach(w1, e, a)}} : TRUE) :
       w1 \in {CloseOld([w EXCEPT !.engines[e] = SetAttrs(InitFields(a), a)])}} : TRUE)

\* EvMenu.__init__ for the new object e
EvMenu_init(w, e, a) ==
  IF ~DictHas(MenuData(a.menudata), a.startnode)
  THEN Raise(w, "EvMenuError")
  ELSE IF ReservedClash(a) # {}
  THEN Raise(w, "RuntimeError")
  ELSE (CHOOSE val \in {
              (CHOOSE val \in { Start(w2, e, a) :
                   w2 \in {Attach(w1, e, a)}} : TRUE) :
            w1 \in {CloseOld([w EXCEPT !.engines[e] = SetAttrs(InitFields(a), a)])}} : TRUE)

\* ------------------------------------------------------------------------
\* The calls made from outside
\* ------------------------------------------------------------------------

ConstructorCalls ==
  { Args("main", "start", TRUE, TRUE, TRUE, "look", FALSE, FALSE),
    Args("main", "start", FALSE, FALSE, FALSE, "None", TRUE, FALSE),
    Args("main", "start", TRUE, FALSE, TRUE, "reclose", TRUE, TRUE),
    Args("alt", "start", TRUE, TRUE, TRUE, "look", FALSE, FALSE),
    Args("main", "nostart", TRUE, TRUE, TRUE, "look", FALSE, FALSE) }

Decoration == {Blank, AnsiCode}
PlainWords == {"a", "b", "c", "d", "e", "h", "l", "q", "z", "A", "look", "menudebug"}
DecoratedWords == {"a", "l"}

\* A word with up to MaxDeco blanks or markup codes around it
RECURSIVE Decorated(_, _)
Decorated(s, n) ==
  IF n = 0 THEN {s}
  ELSE {s} \cup UNION { Decorated(<<c>> \o s, n - 1) \cup Decorated(s \o <<c>>, n - 1)
                        : c \in Decoration }

RawInputs ==
  {<<>>, <<"menudebug", Blank, "z">>}
    \cup {<<c>> : c \in PlainWords}
    \cup UNION {Decorated(<<c>>, MaxDeco) : c \in DecoratedWords}

World == [engines |-> engines, actor |-> actor, counts |-> counts,
          trace |-> <<>>, exc |-> "none", ret |-> RNone,
          node |-> NodeResult(RNone)]

Done(w, op, e, raw_string, a) ==
  /\ engines' = w.engines
  /\ actor' = w.actor
  /\ counts' = w.counts
  /\ last' = [op |-> op, eng |-> e, raw |-> raw_string, args |-> a,
              trace |-> w.trace, exc |-> w.exc]

Init ==
  /\ engines = [e \in Engines |-> NoEngine]
  /\ actor = NoActor
  /\ counts = [e \in Engines |-> NoCounts]
  /\ last = [op |-> "none", eng |-> 0, raw |-> <<>>, args |-> NoArgs,
             trace |-> <<>>, exc |-> "none"]

\* A slot for a menu object is free when no object was made in it, or when
\* its object is closed and off the caller, and nobody holds it any more
Free(e) == ~engines[e].made \/ (engines[e].quitting /\ actor.evmenu # e)

\* EvMenu(caller, menudata, ...): a new object is constructed in the first
\* free slot
ConstructFrom(slots, calls) ==
  \E e \in slots, a \in calls :
    /\ Free(e)
    /\ \A o \in slots : o < e => ~Free(o)
    /\ Done(EvMenu_init([World EXCEPT !.engines[e] = NoEngine, !.counts[e] = NoCounts], e, a),
            "init", e, <<>>, a)

\* CmdEvMenuNode.func: a line of input goes to caller.ndb._evmenu
ParseInputFrom(inputs) ==
  \E raw_string \in inputs :
    /\ actor.evmenu # 0
    /\ Done(parse_input(World, actor.evmenu, raw_string), "parse_input",
            actor.evmenu, raw_string, NoArgs)

\* menu.close_menu() called on a menu object from outside
CloseMenu ==
  \E e \in Engines :
    /\ engines[e].made
    /\ Done(close_menu(World, e), "close_menu", e, <<>>, NoArgs)

\* One menu at a time: a new menu is started only when none is running
Construct == ConstructFrom({1}, ConstructorCalls)
ParseInput == ParseInputFrom(RawInputs)

Next == Construct \/ ParseInput \/ CloseMenu

Spec == Init /\ [][Next]_vars

\* Menus started while another one is running on the caller
ReplaceCalls ==
  { Args("main", "start", TRUE, TRUE, TRUE, "look", FALSE, FALSE),
    Args("alt", "start", TRUE, TRUE, TRUE, "reclose", FALSE, FALSE),
    Args("main", "nostart", TRUE, TRUE, TRUE, "look", FALSE, FALSE) }
ReplaceInputs == {<<"a">>, <<"l">>, <<"q">>, <<"z">>}

Replace == ConstructFrom(Engines, ReplaceCalls)
ReplaceInput == ParseInputFrom(ReplaceInputs)

NextReplace == Replace \/ ReplaceInput \/ CloseMenu

SpecReplace == Init /\ [][NextReplace]_vars

\* Menus started with extra keyword arguments
KwargsCalls ==
  { WithKwargs(Args("main", "start", TRUE, TRUE, TRUE, "look", FALSE, FALSE), extra) :
      extra \in { {<<"flag", "x">>},
                  {<<"nodename", "n3">>},
                  {<<"_quitting", "True">>},
                  {<<"auto_look", "False">>, <<"flag", "x">>},
                  {<<"options", "x">>},
                  {<<"flag", "x">>, <<"helptext", "x">>} } }
KwargsInputs == {<<"a">>, <<"b">>, <<"d">>, <<"l">>, <<"q">>, <<"look">>, <<"z">>}

ConstructKwargs == ConstructFrom({1}, KwargsCalls)
KwargsInput == ParseInputFrom(KwargsInputs)

NextKwargs == ConstructKwargs \/ KwargsInput \/ CloseMenu

SpecKwargs == Init /\ [][NextKwargs]_vars

\* Menus made from the template
TemplateCalls ==
  { Args("template", "start", TRUE, TRUE, TRUE, "look", FALSE, FALSE),
    Args("template", "start", FALSE, TRUE, TRUE, "None", FALSE, FALSE),
    Args("template", "start", TRUE, FALSE, FALSE, "None", FALSE, FALSE) }
TemplateInputs ==
  { <<>>, <<"1">>, <<"2">>, <<"q">>, <<"look">>,
    <<"y", "e", "s", " ", "p">>, <<"y", "e", "a">>, <<"n", "o">>,
    <<"4", "2">>, <<"4", "+">>, <<"s", "i", "n", "g">>, <<"h">> }

\* template2menu(caller, menu_template): the template is compiled and its
\* content map stored on the caller, then the menu is started
Template2Menu ==
  \E a \in TemplateCalls :
    /\ Free(1)
    /\ Done(EvMenu_init([World EXCEPT !.engines[1] = NoEngine, !.counts[1] = NoCounts,
                                      !.actor.evmenu_template_contents = Some("template")],
                        1, a),
            "init", 1, <<>>, a)
TemplateInput == ParseInputFrom(TemplateInputs)

NextTemplate == Template2Menu \/ TemplateInput \/ CloseMenu

SpecTemplate == Init /\ [][NextTemplate]_vars

\* Menus with list nodes
ListCalls ==
  { Args("lists", "entry", TRUE, TRUE, TRUE, "None", FALSE, FALSE),
    Args("lists", "index25", TRUE, TRUE, TRUE, "None", FALSE, FALSE),
    Args("lists", "index3", FALSE, FALSE, FALSE, "None", FALSE, FALSE) }
ListInputs ==
  { <<"1">>, <<"2">>, <<"1", "0">>, <<"1", "1">>, <<Blank, "3">>,
    <<AnsiCode, "2">>, <<"n">>, <<"p">>, <<"c">>,
    <<"a">>, <<"b">>, <<"d">>, <<"e">>, <<"h">>, <<"z">> }

ConstructList == ConstructFrom({1}, ListCalls)
ListInput == ParseInputFrom(ListInputs)

NextList == ConstructList \/ ListInput \/ CloseMenu

SpecList == Init /\ [][NextList]_vars

\* ------------------------------------------------------------------------
\* Persistent menus and the server reload
\* ------------------------------------------------------------------------

\* A _restore that starts the saved menu from its first node again (the
\* variant C29_RestoreRoundTrip rules out)
RestoreArgs_from_start(saved, record) == saved

\* The constructor call _restore replays: the saved calldict, with the saved
\* start node and its input put in
RestoreArgs(saved, record) ==
  WithInput([saved EXCEPT !.startnode = IF record[1] # "" THEN record[1] ELSE @],
            record[2], record[3])

\* CmdEvMenuNode.func when the caller has no menu: _restore(caller) starts
\* the saved menu as the new object e and the line of input is dropped; with
\* nothing saved the command fails
func_restore(w, e) ==
  IF ~w.actor.menutree_saved.some
  THEN Raise(msg(w, 0, "menu_not_found", ""), "EvMenuError")
  ELSE IF ~w.actor.menutree_saved_startnode.some
  THEN Raise(w, "TypeError")
  ELSE (CHOOSE val \in { EvMenu_init(w, e, a) :
            a \in {RestoreArgs(w.actor.menutree_saved.v, w.actor.menutree_saved_startnode.v)}} : TRUE)

\* The caller after a server reload: caller.ndb and the menu objects are
\* gone, and of the menu's cmdset only a permanently added one is left
Reloaded(w) ==
  [w EXCEPT !.engines = [e \in Engines |-> NoEngine],
            !.counts = [e \in Engines |-> NoCounts],
            !.actor.evmenu = 0,
            !.actor.cmdsets = IF w.engines[w.actor.evmenu].cmdset_permanent THEN 1 ELSE 0]

PersistCalls ==
  { Args("main", "start", TRUE, TRUE, TRUE, "None", TRUE, FALSE),
    Args("lists", "index25", TRUE, TRUE, TRUE, "None", TRUE, FALSE),
    WithKwargs(Args("main", "start", TRUE, TRUE, TRUE, "None", TRUE, FALSE),
               {<<"flag", "lambda">>}),
    Args("main", "start", TRUE, TRUE, TRUE, "None", TRUE, TRUE),
    Args("main", "start", TRUE, TRUE, TRUE, "None", FALSE, FALSE) }
PersistInputs == {<<"a">>, <<"q">>, <<"n">>, <<"2">>}

ConstructPersist == ConstructFrom({1}, PersistCalls)
PersistInput == ParseInputFrom(PersistInputs)

\* The server reloads while a menu is running, and the caller's next line
\* of input arrives: it reaches CmdEvMenuNode.func only when the menu's
\* cmdset was added permanently
Reload ==
  \E raw_string \in PersistInputs :
    /\ actor.evmenu # 0
    /\ \E w \in {Reloaded(World)} :
         Done(IF engines[actor.evmenu].cmdset_permanent THEN func_restore(w, 1) ELSE w,
              "reload", 1, raw_string, NoArgs)

NextPersist == ConstructPersist \/ PersistInput \/ CloseMenu \/ Reload

SpecPersist == Init /\ [][NextPersist]_vars

\* ------------------------------------------------------------------------
\* A menu whose options have aliases, numbers and a default
\* ------------------------------------------------------------------------

KeysCalls ==
  { Args("keys", "start", TRUE, TRUE, TRUE, "None", FALSE, FALSE),
    Args("keys", "start", FALSE, FALSE, FALSE, "look", FALSE, FALSE),
    Args("keys", "start", TRUE, TRUE, FALSE, "look", FALSE, FALSE),
    Args("keys", "two", TRUE, FALSE, TRUE, "None", FALSE, FALSE) }
KeysInputs ==
  { <<"a">>, <<"A">>, <<"b">>, <<AnsiCode, "B", Blank>>, <<"1">>, <<"2">>, <<"c">>,
    <<"e">>, <<"z">>, <<"q">>, <<"l">>, <<"h">>, <<"x">>, <<"_default">> }

ConstructKeys == ConstructFrom({1}, KeysCalls)
KeysInput == ParseInputFrom(KeysInputs)

NextKeys == ConstructKeys \/ KeysInput \/ CloseMenu

SpecKeys == Init /\ [][NextKeys]_vars

\* template2menu(caller, menu_template, startnode=..., persistent=...,
\* **kwargs): `startnode` is a parameter of its own that the body never
\* hands to EvMenu, whose own `startnode` keeps its default "start"
template2menu(w, e, tid, a) ==
  (CHOOSE val \in { IF w1.exc # "none" THEN w1
                   ELSE EvMenu_init(w1, e, [a EXCEPT !.menudata = tid, !.startnode = "start"]) :
       w1 \in {parse_menu_template(w, tid)}} : TRUE)

\* Menus and templates that share one caller: templates are compiled and
\* menus started while another menu may be running
SharedTemplates ==
  {"template", "other", "pattern go(5)", "go(a=1)", "go(5)", "go(a=1, 5)",
   "go(evmenu_goto=x)", "go(evmenu_gotomap=x)", "go(_current_nodename=x)",
   "go(evmenu_current_nodename=x)", "go( evmenu_goto_callables = x)"}
StartedTemplates == SharedTemplates \ {"go(a=1)"}
SharedCall == Args("main", "start", TRUE, TRUE, TRUE, "None", FALSE, FALSE)
SharedInputs == { <<"1">>, <<"z">>, <<"y", "e", "a">> }

\* parse_menu_template(caller, menu_template, {"run": run})
ParseTemplate ==
  \E tid \in SharedTemplates :
    /\ tid \in TemplateNames
    /\ Done(parse_menu_template(World, tid), "parse_menu_template", 0, <<>>,
            [NoArgs EXCEPT !.menudata = tid])

\* template2menu(caller, menu_template, {"run": run}, startnode=...)
Template2MenuFrom(slots, tids, startnodes) ==
  \E e \in slots, tid \in tids, startnode \in startnodes :
    /\ Free(e)
    /\ \A o \in slots : o < e => ~Free(o)
    /\ Done(template2menu([World EXCEPT !.engines[e] = NoEngine, !.counts[e] = NoCounts],
                          e, tid, [SharedCall EXCEPT !.startnode = startnode]),
            "template2menu", e, <<>>,
            [SharedCall EXCEPT !.menudata = tid, !.startnode = startnode])

Template2MenuShared == Template2MenuFrom(Engines, StartedTemplates, {"start"})

ConstructShared == ConstructFrom(Engines, {SharedCall})
SharedInput == ParseInputFrom(SharedInputs)

NextShared ==
  ParseTemplate \/ Template2MenuShared \/ ConstructShared \/ SharedInput \/ CloseMenu

SpecShared == Init /\ [][NextShared]_vars

\* ------------------------------------------------------------------------
\* Templates that call a registered callable, started on a node by name
\* ------------------------------------------------------------------------

CallTemplates == {"other", "run()", "run(a=1)", "run(a=1, b=2)"}
CallStartnodes == {"start", "next", "nowhere"}
CallInputs == { <<"1">>, <<"2">>, <<"z">>, <<"q">>, <<"l">> }

Template2MenuCall == Template2MenuFrom(Engines, CallTemplates, CallStartnodes)
CallInput == ParseInputFrom(CallInputs)

NextCall == Template2MenuCall \/ CallInput \/ CloseMenu

SpecCall == Init /\ [][NextCall]_vars

\* A menu whose callables close it while it handles their option
ShutCalls ==
  { Args("shut", "start", TRUE, TRUE, TRUE, "None", FALSE, FALSE),
    Args("shut", "start", FALSE, FALSE, FALSE, "look", TRUE, FALSE),
    Args("shut", "after", TRUE, FALSE, TRUE, "look", FALSE, FALSE) }
ShutInputs == { <<"a">>, <<"b">>, <<"c">>, <<"d">>, <<"z">>, <<"q">>, <<"l">> }

ConstructShut == ConstructFrom(Engines, ShutCalls)
ShutInput == ParseInputFrom(ShutInputs)

NextShut == ConstructShut \/ ShutInput \/ CloseMenu

SpecShut == Init /\ [][NextShut]_vars

\* Menus whose construction fails after __init__ has started: the start
\* node raises, or startnode_input carries a keyword EvMenu uses itself
FailCalls ==
  { Args("main", "start", TRUE, TRUE, TRUE, "None", FALSE, FALSE),
    Args("main", "boom", TRUE, TRUE, TRUE, "look", FALSE, FALSE),
    Args("main", "boom", FALSE, FALSE, FALSE, "None", TRUE, FALSE),
    Args("main", "nostart", TRUE, TRUE, TRUE, "None", TRUE, FALSE),
    WithInput(Args("main", "n2", TRUE, TRUE, TRUE, "None", TRUE, FALSE),
              <<"x">>, Dict({<<"nodename", "n3">>})),
    Args("main", "n3", TRUE, FALSE, TRUE, "None", TRUE, FALSE) }
FailInputs == { <<"a">>, <<"b">>, <<"q">>, <<"z">> }

ConstructFail == ConstructFrom(Engines, FailCalls)
FailInput == ParseInputFrom(FailInputs)

NextFail == ConstructFail \/ FailInput \/ CloseMenu

SpecFail == Init /\ [][NextFail]_vars

\* ------------------------------------------------------------------------
\* Reading the record of the last call
\* ------------------------------------------------------------------------

Indices(trace) == 1..Len(trace)

IsMsg(event, what) == event.ev = "msg" /\ event.what = what
IsCallOf(event, roles) == event.ev = "call" /\ event.what \in roles
IsStep(event, what) == event.ev = "step" /\ event.what = what

\* The menu functions a call ran: nodes, and goto and exec callables
MenuRoles == {"node", "exec_node", "goto", "exec"}
Count(trace, Test(_)) == Cardinality({i \in Indices(trace) : Test(trace[i])})

\* The token parse_input makes of a line
TokenOf(raw_string) == InputToken(raw_string)

\* The token is a key of the option table
IsOptionKey(eng, cmd) == eng.options.some /\ \E p \in eng.options.v : p[1] = cmd

\* The enabled built-in command the token names, "none" when it names none
BuiltinOf(eng, cmd) ==
  IF eng.auto_look /\ (cmd = <<"look">> \/ cmd = <<"l">>) THEN "look"
  ELSE IF eng.auto_help /\ (cmd = <<"help">> \/ cmd = <<"h">>) THEN "help"
  ELSE IF eng.auto_quit /\ (cmd = <<"quit">> \/ cmd = <<"q">> \/ cmd = <<"exit">>) THEN "quit"
  ELSE IF eng.debug_mode /\ cmd # <<>> /\ Head(cmd) = "menudebug" THEN "menudebug"
  ELSE "none"

\* What the session is: the node it is on, how input is resolved, what is
\* shown, and whether it is closed
SessionState(eng) ==
  <<eng.nodename, eng.options, eng.default, eng.nodetext, eng.helptext, eng.quitting>>

\* ------------------------------------------------------------------------
\* C1
\* ------------------------------------------------------------------------

PriorityOrder(eng, cmd, taken, trace, after) ==
  /\ IsOptionKey(eng, cmd) => taken = "option"
  /\ (~IsOptionKey(eng, cmd) /\ BuiltinOf(eng, cmd) # "none") => taken = BuiltinOf(eng, cmd)
  /\ taken = "default" =>
       (~IsOptionKey(eng, cmd) /\ BuiltinOf(eng, cmd) = "none" /\ eng.default.some)
  /\ taken = "look" => (Len(trace) = 2 /\ IsMsg(trace[2], "nodetext"))
  /\ taken = "help" => (Len(trace) = 2 /\ IsMsg(trace[2], "helptext"))
  /\ taken = "quit" => after.quitting
  /\ taken = "menudebug" => (Len(trace) = 2 /\ IsMsg(trace[2], "debug"))

\* C1: parse_input resolves a token in strict priority order.  A token
\* that is a key of the current option table runs that option, also when
\* it is a built-in command word; an enabled built-in command word that is
\* no option key runs the built-in, also when the node has a default
\* option; the default option runs only for a token that is neither.
C1_PriorityOrder ==
  [][last'.op = "parse_input" =>
       PriorityOrder(engines[last'.eng], TokenOf(last'.raw), last'.trace[1].what,
                     last'.trace, engines'[last'.eng])]_vars

\* An option keyed "l" was run for the decorated line " l" or "|rl" while
\* the built-in look was enabled
C1_Witness ==
  /\ last.op = "parse_input"
  /\ last.raw # <<"l">> /\ TokenOf(last.raw) = <<"l">>
  /\ engines[last.eng].auto_look
  /\ IsStep(last.trace[1], "option")
  /\ \E i \in Indices(last.trace) : IsCallOf(last.trace[i], {"node"}) /\ last.trace[i].arg = "term"

\* ------------------------------------------------------------------------
\* C2
\* ------------------------------------------------------------------------

\* Event i is the display of a node that a transition has just run
Displayed(i) ==
  /\ i > 1 /\ i <= Len(last.trace)
  /\ IsMsg(last.trace[i], "nodetext")
  /\ IsCallOf(last.trace[i - 1], {"node"})

\* The options the node displayed at i returned
ReturnedOptions(i) == NodeResult(FuncDef(last.trace[i - 1].arg).ret).options

\* The session is closed right after the display at i
ClosesAfter(i) ==
  /\ i + 1 <= Len(last.trace)
  /\ last.trace[i + 1] = StepEv(last.trace[i].eng, "cmdset_remove")
  /\ engines[last.trace[i].eng].quitting

\* The exit hook, when there is one, runs after the display at i
HookAfter(i) ==
  engines[last.trace[i].eng].cmd_on_exit # "None" =>
    \E j \in Indices(last.trace) :
      j > i /\ IsCallOf(last.trace[j], {"cmd_on_exit"}) /\ last.trace[j].eng = last.trace[i].eng

\* C2, as the spec states it: a node reached by a transition closes the
\* session right after its display if and only if its options are None.
C2_Original ==
  \A i \in Indices(last.trace) :
    Displayed(i) => (ReturnedOptions(i).k = "None" <=> ClosesAfter(i))

\* C2, amended: a node reached by a transition closes the session right
\* after its display if and only if its options are None or empty; when it
\* closes, the exit hook runs after the display.
C2_Terminality ==
  \A i \in Indices(last.trace) :
    Displayed(i) =>
      /\ (~Truthy(ReturnedOptions(i))) <=> ClosesAfter(i)
      /\ ClosesAfter(i) => HookAfter(i)

\* The node "term", which returns (text, None), was reached from a menu
\* with an exit hook: displayed, then closed, the hook run at the end
C2_Witness ==
  /\ last.op = "parse_input"
  /\ \E i \in Indices(last.trace) :
       /\ Displayed(i) /\ last.trace[i - 1].arg = "term"
       /\ ReturnedOptions(i).k = "None"
       /\ ClosesAfter(i)
       /\ engines[last.eng].cmd_on_exit = "look"
       /\ IsCallOf(last.trace[Len(last.trace) - 1], {"cmd_on_exit"})

\* ------------------------------------------------------------------------
\* C3
\* ------------------------------------------------------------------------

\* The entry parse_input selects for a token: the option's, else the default
Selected(eng, cmd) ==
  IF IsOptionKey(eng, cmd) THEN Some((CHOOSE p \in eng.options.v : p[1] = cmd)[2])
  ELSE IF BuiltinOf(eng, cmd) = "none" /\ eng.default.some THEN eng.default
  ELSE NoneV

\* The node name an exec callable hands back: its non-empty string, or the
\* name of its (name, kwargs) pair
ExecNames(entry) ==
  IF entry.exec.t # "call" \/ FuncDef(entry.exec.v).act # "ret" THEN {}
  ELSE IF FuncDef(entry.exec.v).ret.t = "str" /\ FuncDef(entry.exec.v).ret.s # ""
       THEN {FuncDef(entry.exec.v).ret.s}
  ELSE IF FuncDef(entry.exec.v).ret.t = "tuple" /\ FuncDef(entry.exec.v).ret.len > 1
          /\ FuncDef(entry.exec.v).ret.kw.k = "dict" /\ FuncDef(entry.exec.v).ret.s # ""
       THEN {FuncDef(entry.exec.v).ret.s}
  ELSE {}

\* The function the declared goto directive names
DeclaredFunction(tree, goto_) ==
  IF goto_.t = "call" THEN {goto_.v}
  ELSE {p[2] : p \in {q \in tree : q[1] = goto_.v}}

ExecOverrides(eng, entry, name, trace, after) ==
  \* the declared goto is never invoked or visited
  /\ \A i \in Indices(trace) :
       IsCallOf(trace[i], {"goto", "node"}) =>
         (trace[i].arg \in DeclaredFunction(MenuData(eng.menutree), entry.goto)
            => trace[i].arg \in DeclaredFunction(MenuData(eng.menutree), Name(name)))
  \* its kwargs are discarded
  /\ \A i \in Indices(trace) :
       IsCallOf(trace[i], {"goto", "node"}) => trace[i].kw.d \cap entry.goto_kwargs.d = {}
  \* the node that runs is the one exec named, and the session ends on it
  /\ \A i \in Indices(trace) :
       IsCallOf(trace[i], {"node"}) =>
         trace[i].arg \in DeclaredFunction(MenuData(eng.menutree), Name(name))
  /\ \E i \in Indices(trace) : IsCallOf(trace[i], {"node"})
  /\ after.nodename = Some(name)
  /\ after.node_kwargs.d \cap entry.goto_kwargs.d = {}

\* C3: when the selected option has both an exec and a goto directive and
\* the exec step returns a node name (or a (name, kwargs) pair), the
\* dispatch ends on the node exec named; the declared goto is neither
\* invoked nor visited and its kwargs are discarded.
C3_ExecOverridesGoto ==
  [][(/\ last'.op = "parse_input"
      /\ Selected(engines[last'.eng], TokenOf(last'.raw)).some
      /\ TargetTruthy(Selected(engines[last'.eng], TokenOf(last'.raw)).v.goto)
      /\ ExecNames(Selected(engines[last'.eng], TokenOf(last'.raw)).v) # {})
     => \A name \in ExecNames(Selected(engines[last'.eng], TokenOf(last'.raw)).v) :
          ExecOverrides(engines[last'.eng],
                        Selected(engines[last'.eng], TokenOf(last'.raw)).v,
                        name, last'.trace, engines'[last'.eng])]_vars

\* On n2 the option with exec = ex_pair (returns ("n3", {r: 1})) and
\* goto = (go_name, {g: 1}) was taken: n3 ran with the exec's kwargs
C3_Witness ==
  /\ last.op = "parse_input"
  /\ \E i \in Indices(last.trace) : IsCallOf(last.trace[i], {"exec"}) /\ last.trace[i].arg = "ex_pair"
  /\ \E i \in Indices(last.trace) :
       /\ IsCallOf(last.trace[i], {"node"}) /\ last.trace[i].arg = "n3"
       /\ <<"r", "1">> \in last.trace[i].kw.d
  /\ engines[last.eng].nodename = Some("n3")
  /\ engines[last.eng].node_kwargs = RK

\* ------------------------------------------------------------------------
\* C4
\* ------------------------------------------------------------------------

\* How often each part of closing must have run for a menu object
ClosedOnce(eng, count) ==
  /\ count.cmdset_remove = (IF eng.quitting THEN 1 ELSE 0)
  /\ count.detach = (IF eng.quitting THEN 1 ELSE 0)
  /\ count.cmd_on_exit = (IF eng.quitting /\ eng.cmd_on_exit # "None" THEN 1 ELSE 0)

\* C4: closing is idempotent.  Over any sequence of close requests on one
\* session (repeated close_menu calls, the quit built-in, a node without
\* options, a close requested from inside the exit hook) the exit hook, the
\* removal of the command set and the clean-up of the session state each
\* happen exactly once.
C4_CloseOnce ==
  \A e \in Engines : ClosedOnce(engines[e], counts[e])

\* close_menu was called again on a closed menu whose exit hook itself
\* calls close_menu: nothing ran, every part still counts one
C4_Witness ==
  /\ last.op = "close_menu" /\ last.trace = <<>>
  /\ engines[last.eng].quitting
  /\ engines[last.eng].cmd_on_exit = "reclose"
  /\ counts[last.eng] = [cmd_on_exit |-> 1, cmdset_remove |-> 1, detach |-> 1]

\* ------------------------------------------------------------------------
\* C5
\* ------------------------------------------------------------------------

\* C5: at most one menu is attached to the caller; constructing a new menu
\* while another one is attached closes the old one without invoking the
\* old one's exit hook (cmd_on_exit), and afterwards exactly the new menu
\* is attached.
C5_ReplaceWithoutHook ==
  /\ actor.cmdsets <= 1
  /\ (last.op = "init" /\ last.exc = "none") =>
       /\ \A i \in Indices(last.trace) :
            IsCallOf(last.trace[i], {"cmd_on_exit"}) => last.trace[i].eng = last.eng
       /\ \A o \in Engines : (o # last.eng /\ engines[o].made) => engines[o].quitting
       /\ ~engines[last.eng].quitting => actor.evmenu = last.eng

\* ------------------------------------------------------------------------
\* C6
\* ------------------------------------------------------------------------

\* A goto or exec callable raised the abort signal in the call
Aborted(trace) ==
  \E i \in Indices(trace) :
    /\ IsCallOf(trace[i], {"goto", "exec"})
    /\ FuncDef(trace[i].arg).act = "raise"
    /\ FuncDef(trace[i].arg).exc = "EvMenuGotoAbortMessage"

\* C6: when a goto or exec callable raises EvMenuGotoAbortMessage during
\* parse_input, the dispatch is aborted and the session stays on the
\* current node: node name, option table, default option and node text are
\* as before the input, the session is not closed, no node function is run
\* again, and the one message sent is the abort message.
C6_AbortKeepsNode ==
  [][(last'.op = "parse_input" /\ Aborted(last'.trace)) =>
       /\ SessionState(engines'[last'.eng]) = SessionState(engines[last'.eng])
       /\ engines' = engines /\ actor' = actor
       /\ ~engines'[last'.eng].quitting
       /\ last'.exc = "none"
       /\ Count(last'.trace, LAMBDA ev : IsCallOf(ev, {"node", "exec_node"})) = 0
       /\ Count(last'.trace, LAMBDA ev : ev.ev = "msg") = 1
       /\ IsMsg(last'.trace[Len(last'.trace)], "abort_message")]_vars

\* On n2 the option with exec = ex_abort and goto = "start" was taken: the
\* abort message was sent and the menu is still on n2
C6_Witness ==
  /\ last.op = "parse_input"
  /\ \E i \in Indices(last.trace) : IsCallOf(last.trace[i], {"exec"}) /\ last.trace[i].arg = "ex_abort"
  /\ IsMsg(last.trace[Len(last.trace)], "abort_message")
  /\ engines[last.eng].nodename = Some("n2")
  /\ actor.evmenu = last.eng

\* ------------------------------------------------------------------------
\* C7
\* ------------------------------------------------------------------------

\* C7: when the token matches no option key and no enabled built-in
\* command and the current node declares no default option, exactly one
\* unrecognized-input message is sent, no node or callback function is
\* executed, and the session state is unchanged.
C7_NoMatchNoDefault ==
  [][(/\ last'.op = "parse_input"
      /\ ~IsOptionKey(engines[last'.eng], TokenOf(last'.raw))
      /\ BuiltinOf(engines[last'.eng], TokenOf(last'.raw)) = "none"
      /\ ~engines[last'.eng].default.some)
     => /\ Count(last'.trace, LAMBDA ev : IsMsg(ev, "HELP_NO_OPTION_MATCH")) = 1
        /\ Count(last'.trace, LAMBDA ev : ev.ev = "msg") = 1
        /\ Count(last'.trace, LAMBDA ev : ev.ev = "call") = 0
        /\ last'.exc = "none"
        /\ SessionState(engines'[last'.eng]) = SessionState(engines[last'.eng])
        /\ engines' = engines /\ actor' = actor /\ counts' = counts]_vars

\* On n2, which has no default option, the line "look" came in with the
\* built-in look disabled
C7_Witness ==
  /\ last.op = "parse_input" /\ last.raw = <<"look">>
  /\ ~engines[last.eng].auto_look
  /\ engines[last.eng].nodename = Some("n2")
  /\ ~engines[last.eng].default.some
  /\ Len(last.trace) = 2 /\ IsMsg(last.trace[2], "HELP_NO_OPTION_MATCH")

\* ------------------------------------------------------------------------
\* C8
\* ------------------------------------------------------------------------

\* The node a transition went to is missing from the menu tree, or its
\* function raised
NodeFailed(tree, trace) ==
  \/ \E i \in Indices(trace) :
       IsCallOf(trace[i], {"node"}) /\ FuncDef(trace[i].arg).act = "raise"
  \/ \E i \in Indices(trace) :
       /\ IsMsg(trace[i], "ERR_NOT_IMPLEMENTED")
       /\ \A p \in tree : p[1] # trace[i].arg
       /\ i > 1 /\ ~IsCallOf(trace[i - 1], {"exec_node"})
       /\ i < Len(trace) /\ IsStep(trace[i + 1], "goto_failed")

\* C8: a failing node does not corrupt the session.  When the target node
\* of a transition is missing from the menu tree or its function raises,
\* the menu stays on the node displayed before, with node name, option
\* table, default, node text and help text as before the dispatch, so the
\* next input is resolved against the previous node's options.
C8_FailedNodeKeepsState ==
  [][(last'.op = "parse_input"
      /\ NodeFailed(MenuData(engines[last'.eng].menutree), last'.trace)) =>
       /\ SessionState(engines'[last'.eng]) = SessionState(engines[last'.eng])
       /\ engines' = engines /\ actor' = actor
       /\ actor'.evmenu = last'.eng
       /\ Count(last'.trace, LAMBDA ev : ev.ev = "msg") >= 1]_vars

\* On n2 the option to the node "boom", whose function raises, was taken:
\* the exception left parse_input and the menu is still on n2
C8_Witness ==
  /\ last.op = "parse_input" /\ last.exc = "Exception"
  /\ \E i \in Indices(last.trace) : IsCallOf(last.trace[i], {"node"}) /\ last.trace[i].arg = "boom"
  /\ engines[last.eng].nodename = Some("n2")
  /\ IsOptionKey(engines[last.eng], <<"q">>)

\* ------------------------------------------------------------------------
\* C9
\* ------------------------------------------------------------------------

\* C9: any exception raised inside a function invoked through _safe_call,
\* be it a node function, a goto callable or an exec callable, has the
\* generic failure message sent to the caller before it is re-raised; no
\* such exception leaves the dispatch without that message.
C9_FailureMessage ==
  \A i \in Indices(last.trace) :
    (/\ IsCallOf(last.trace[i], MenuRoles)
     /\ FuncDef(last.trace[i].arg).act = "raise"
     /\ last.exc = FuncDef(last.trace[i].arg).exc)
    => \E j \in Indices(last.trace) :
         j > i /\ IsMsg(last.trace[j], "ERR_GENERAL") /\ last.trace[j].arg = last.trace[i].arg

\* ------------------------------------------------------------------------
\* C10
\* ------------------------------------------------------------------------

\* C10: constructing a menu with a start node that is not in the menu tree
\* fails with EvMenuError before any node function is executed and before
\* anything is stored on the caller: the menu that was running stays.
C10_MissingStartNode ==
  [][(/\ last'.op = "init"
      /\ \A p \in MenuData(last'.args.menudata) : p[1] # last'.args.startnode)
     => /\ last'.exc = "EvMenuError"
        /\ last'.trace = <<>>
        /\ actor' = actor
        /\ \A o \in Engines : o # last'.eng => engines'[o] = engines[o]
        /\ \A o \in Engines : o # last'.eng => counts'[o] = counts[o]]_vars

\* EvMenu(caller, main, startnode="nostart") failed while another menu was
\* running on the caller, which is still attached and open
C10_Witness ==
  /\ last.op = "init" /\ last.args.startnode = "nostart"
  /\ last.exc = "EvMenuError" /\ last.trace = <<>>
  /\ actor.evmenu # 0 /\ actor.evmenu # last.eng
  /\ ~engines[actor.evmenu].quitting
  /\ actor.cmdsets = 1

\* ------------------------------------------------------------------------
\* C11
\* ------------------------------------------------------------------------

\* The number of options marked `_default` in what node function f returns
DefaultCount(f) ==
  Cardinality({j \in 1..Len(FuncDef(f).ret.opts) : IsDefaultOption(FuncDef(f).ret.opts[j])})

\* C11: a node whose option list has two options marked `_default` is
\* rejected with a configuration error; the engine never displays it and
\* never silently keeps one of the two as the default.
C11_SingleDefault ==
  \A i \in Indices(last.trace) :
    (IsCallOf(last.trace[i], {"node"}) /\ DefaultCount(last.trace[i].arg) >= 2) =>
      /\ last.exc = "EvMenuError"
      /\ ~(i < Len(last.trace) /\ IsMsg(last.trace[i + 1], "nodetext"))
      /\ ~engines[last.trace[i].eng].default.some

\* ------------------------------------------------------------------------
\* C13
\* ------------------------------------------------------------------------

\* C13: for each of the four shapes f(caller), f(caller, raw_string),
\* f(caller, **kwargs) and f(caller, raw_string, **kwargs), _safe_call
\* passes raw_string exactly when a second positional parameter is
\* declared and the keyword arguments exactly when **kwargs is declared;
\* a node's keyword arguments carry its name as _current_nodename.
C13_AdapterShapes ==
  \A i \in Indices(last.trace) :
    IsCallOf(last.trace[i], MenuRoles) =>
      /\ FuncDef(last.trace[i].arg).nargs \in {1, 2}
      /\ last.trace[i].raw = (FuncDef(last.trace[i].arg).nargs = 2)
      /\ last.trace[i].haskw = FuncDef(last.trace[i].arg).kwargs
      /\ ~last.trace[i].haskw => last.trace[i].kw = NoneKw
      /\ last.trace[i].haskw => last.trace[i].kw.k = "dict"
      /\ (last.trace[i].haskw /\ last.trace[i].what \in {"node", "exec_node"}) =>
           \E p \in last.trace[i].kw.d :
             /\ p[1] = "_current_nodename"
             /\ last.trace[i].arg \in DeclaredFunction(MenuData(engines[last.trace[i].eng].menutree),
                                                       Name(p[2]))

\* One input ran a callable f(caller) and then a node f(caller,
\* raw_string, **kwargs): the first got the caller alone, the second all
\* three
C13_Witness ==
  /\ last.op = "parse_input"
  /\ \E i, j \in Indices(last.trace) :
       /\ IsCallOf(last.trace[i], {"exec"}) /\ last.trace[i].arg = "ex_pair"
       /\ ~last.trace[i].raw /\ ~last.trace[i].haskw
       /\ IsCallOf(last.trace[j], {"node"}) /\ last.trace[j].arg = "n3"
       /\ last.trace[j].raw /\ last.trace[j].haskw
       /\ <<"_current_nodename", "n3">> \in last.trace[j].kw.d

\* ------------------------------------------------------------------------
\* C14
\* ------------------------------------------------------------------------

\* f returns nothing: None or the empty string
ReturnsNothing(f) ==
  /\ FuncDef(f).act = "ret"
  /\ \/ FuncDef(f).ret.t = "None"
     \/ FuncDef(f).ret.t = "str" /\ FuncDef(f).ret.s = ""

\* The option's goto as it runs when the option has no exec directive
GotoAlone(e, entry, raw_string) ==
  run_exec_then_goto(World, e, NoTarget, entry.goto, raw_string, EmptyDict, entry.goto_kwargs)

EmptyExecKeepsGoto(e, entry, raw_string, trace, exc, engs, act) ==
  /\ Len(trace) >= 2 /\ IsCallOf(trace[2], {"exec"})
  /\ trace = <<trace[1], trace[2]>> \o GotoAlone(e, entry, raw_string).trace
  /\ exc = GotoAlone(e, entry, raw_string).exc
  /\ engs = GotoAlone(e, entry, raw_string).engines
  /\ act = GotoAlone(e, entry, raw_string).actor

\* C14: when the selected option's exec callable returns None or the
\* empty string, the option's goto directive and its kwargs are executed
\* unchanged, exactly as if the option had no exec directive.
C14_EmptyExecKeepsGoto ==
  [][(/\ last'.op = "parse_input"
      /\ Selected(engines[last'.eng], TokenOf(last'.raw)).some
      /\ TargetTruthy(Selected(engines[last'.eng], TokenOf(last'.raw)).v.goto)
      /\ Selected(engines[last'.eng], TokenOf(last'.raw)).v.exec.t = "call"
      /\ ReturnsNothing(Selected(engines[last'.eng], TokenOf(last'.raw)).v.exec.v))
     => EmptyExecKeepsGoto(last'.eng, Selected(engines[last'.eng], TokenOf(last'.raw)).v,
                           last'.raw, last'.trace, last'.exc, engines', actor')]_vars

\* ------------------------------------------------------------------------
\* C15
\* ------------------------------------------------------------------------

\* The goto callable called at i returned nothing, and the node the menu
\* was on ran again and was displayed
Reran(eng, trace, i, after) ==
  /\ i + 2 <= Len(trace)
  /\ IsCallOf(trace[i + 1], {"node"})
  /\ trace[i + 1].arg \in DeclaredFunction(MenuData(eng.menutree), Name(eng.nodename.v))
  /\ IsMsg(trace[i + 2], "nodetext")
  /\ trace[i + 2].arg = NodeResult(FuncDef(trace[i + 1].arg).ret).text
  /\ after.nodename = eng.nodename

\* C15: when a goto callable returns None or an empty string, the current
\* node is re-run: the function of the current node is executed again, its
\* text is displayed, and the current node name is unchanged.
C15_EmptyGotoReruns ==
  [][last'.op = "parse_input" =>
       \A i \in Indices(last'.trace) :
         (/\ IsCallOf(last'.trace[i], {"goto"})
          /\ ReturnsNothing(last'.trace[i].arg)
          /\ engines[last'.eng].nodename.some)
         => Reran(engines[last'.eng], last'.trace, i, engines'[last'.eng])]_vars

\* On n3 the option whose goto callable go_empty returns "" was taken: n3
\* ran again and the menu is on n3
C15_Witness ==
  /\ last.op = "parse_input"
  /\ \E i \in Indices(last.trace) :
       /\ IsCallOf(last.trace[i], {"goto"}) /\ last.trace[i].arg = "go_empty"
       /\ i + 2 <= Len(last.trace)
       /\ IsCallOf(last.trace[i + 1], {"node"}) /\ last.trace[i + 1].arg = "n3"
       /\ IsMsg(last.trace[i + 2], "nodetext")
  /\ engines[last.eng].nodename = Some("n3")

\* ------------------------------------------------------------------------
\* C16
\* ------------------------------------------------------------------------

\* The node named returns ordinary node output: a text and a list of options
OrdinaryNode(tree, name) ==
  \E f \in DeclaredFunction(tree, Name(name)) :
    /\ FuncDef(f).act = "ret"
    /\ FuncDef(f).ret.t = "tuple" /\ FuncDef(f).ret.len > 1
    /\ FuncDef(f).ret.kw.k = "list"

ExecNodeInPlace(tree, entry, trace, exc, after) ==
  /\ exc = "none"
  /\ after.nodename = Some(entry.goto.v)
  /\ \E i \in Indices(trace) :
       IsCallOf(trace[i], {"node"}) /\ trace[i].arg \in DeclaredFunction(tree, entry.goto)
  /\ \A i \in Indices(trace) :
       IsCallOf(trace[i], {"node"}) => trace[i].arg \in DeclaredFunction(tree, entry.goto)
  /\ \A i \in Indices(trace) : ~IsMsg(trace[i], "ERR_NOT_IMPLEMENTED")

\* C16: an exec directive given as a node name runs that node in place.
\* When the node returns a text and a list of options, the dispatch still
\* ends on the node named by the option's goto; the exec node's text is
\* never used as a node name nor its options as keyword arguments.
C16_ExecNodeInPlace ==
  [][(/\ last'.op = "parse_input"
      /\ Selected(engines[last'.eng], TokenOf(last'.raw)).some
      /\ Selected(engines[last'.eng], TokenOf(last'.raw)).v.exec.t = "name"
      /\ Selected(engines[last'.eng], TokenOf(last'.raw)).v.goto.t = "name"
      /\ OrdinaryNode(MenuData(engines[last'.eng].menutree),
                      Selected(engines[last'.eng], TokenOf(last'.raw)).v.exec.v))
     => ExecNodeInPlace(MenuData(engines[last'.eng].menutree),
                        Selected(engines[last'.eng], TokenOf(last'.raw)).v,
                        last'.trace, last'.exc, engines'[last'.eng])]_vars

\* ------------------------------------------------------------------------
\* C12
\* ------------------------------------------------------------------------

\* The attributes that hold the session state of a menu object: current
\* node name, option table, default, node and help text, keyword-argument
\* bag, quitting flag, session, menu tree
SessionAttributes ==
  {"nodename", "options", "default", "nodetext", "helptext", "node_kwargs",
   "_quitting", "_session", "_menutree"}

\* C12: constructing a menu with an extra keyword argument named like an
\* attribute that holds session state fails with a configuration error,
\* and no menu object is made from the call: no caller-supplied keyword
\* ever overwrites such an attribute.
C12_ReservedKwargs ==
  (last.op = "init" /\ \E p \in last.args.extra : p[1] \in SessionAttributes) =>
    /\ last.exc = "RuntimeError"
    /\ ~engines[last.eng].made

\* ------------------------------------------------------------------------
\* C17
\* ------------------------------------------------------------------------

\* The patterns the default option of the node reroutes by: none when the
\* node has no default option compiled from pattern lines
PatternsOf(eng) ==
  IF eng.default.some /\ eng.default.v.goto = Fn("_generated_input_goto_func")
  THEN GotoMap(DictGet(eng.default.v.goto_kwargs.d, "evmenu_gotomap"))
  ELSE <<>>

\* The menu went to the template node `name`: the node was run under that
\* name, its text was displayed, and the menu is on it
ArrivedAt(trace, after, name, text) ==
  /\ after.nodename = Some(name)
  /\ \E i \in Indices(trace) :
       /\ IsCallOf(trace[i], {"node"}) /\ trace[i].arg = "_generated_node"
       /\ DictGet(trace[i].kw.d, "_current_nodename") = name
       /\ i < Len(trace) /\ IsMsg(trace[i + 1], "nodetext") /\ trace[i + 1].arg = text

\* The input went through the default option and a glob matched it
ThroughGlobDefault(trace) ==
  /\ IsStep(trace[1], "default")
  /\ \E i \in Indices(trace) :
       /\ IsCallOf(trace[i], {"goto"}) /\ trace[i].arg = "_generated_input_goto_func"
       /\ i < Len(trace) /\ IsStep(trace[i + 1], "glob_match")

OnTemplateNode(eng, name) ==
  eng.made /\ ~eng.quitting /\ eng.menutree = "template" /\ eng.nodename = Some(name)

\* C17: in the menu compiled from a template whose node start has the
\* option line `1: Go on -> next` and the pattern line `> yes*: next`,
\* the input "1" on start goes to next, and the input "yes p..." on start
\* goes to next through the default option's glob match.
C17_TemplateRoundTrip ==
  [][(last'.op = "parse_input" /\ OnTemplateNode(engines[last'.eng], "start")) =>
       /\ TokenOf(last'.raw) = <<"1">> =>
            /\ IsStep(last'.trace[1], "option")
            /\ ArrivedAt(last'.trace, engines'[last'.eng], "next", "T_next")
       /\ last'.raw = <<"y", "e", "s", " ", "p">> =>
            /\ ThroughGlobDefault(last'.trace)
            /\ ArrivedAt(last'.trace, engines'[last'.eng], "next", "T_next")]_vars

\* "yes p" was entered on start: the default option's rerouter was called
\* for start, a glob matched, and the menu is on next
C17_Witness ==
  /\ last.op = "parse_input" /\ last.raw = <<"y", "e", "s", " ", "p">>
  /\ ThroughGlobDefault(last.trace)
  /\ \E i \in Indices(last.trace) :
       /\ IsCallOf(last.trace[i], {"goto"})
       /\ DictGet(last.trace[i].kw.d, "evmenu_current_nodename") = "start"
  /\ ArrivedAt(last.trace, engines[last.eng], "next", "T_next")

\* ------------------------------------------------------------------------
\* C18
\* ------------------------------------------------------------------------

\* What the rerouter matches: the lowered input without its newlines
InputOf(raw_string) == lower(strip_newline(raw_string))

\* A pattern matches an input as a glob, or as a regex when it is one
MatchesGlob(pattern, string) == fnmatch(string, pattern)
MatchesRegex(pattern, string) ==
  pattern # <<>> /\ RegexValid(pattern) /\ re_match(pattern, string)
Matches(pattern, string) == MatchesGlob(pattern, string) \/ MatchesRegex(pattern, string)

CatchAll(map) == \E i \in Indices(map) : map[i][1] = <<"*">>

\* The input is no option key, no built-in command, and goes to the
\* default option compiled from the pattern lines of the node
ToPatterns(eng, raw_string) ==
  /\ eng.made /\ ~eng.quitting
  /\ PatternsOf(eng) # <<>>
  /\ ~IsOptionKey(eng, TokenOf(raw_string))
  /\ BuiltinOf(eng, TokenOf(raw_string)) = "none"

\* The no-match message was sent once, nothing else happened to the
\* session, and no exception left parse_input
NoMatchReported(eng, trace, exc, after) ==
  /\ exc = "none"
  /\ after = eng
  /\ Count(trace, LAMBDA ev : IsMsg(ev, "abort_message") /\ ev.arg = "HELP_NO_OPTION_MATCH") = 1
  /\ Count(trace, LAMBDA ev : ev.ev = "msg") = 1
  /\ Count(trace, LAMBDA ev : IsCallOf(ev, {"node"})) = 0

\* C18: in a template node that has pattern lines but no catch-all, an
\* input that matches no option key and no pattern leaves the session on
\* the node (name and option table unchanged, node not re-run) and sends
\* the no-match message; no exception leaves parse_input.
C18_NoMatchStays ==
  [][(/\ last'.op = "parse_input"
      /\ ToPatterns(engines[last'.eng], last'.raw)
      /\ ~CatchAll(PatternsOf(engines[last'.eng]))
      /\ \A i \in Indices(PatternsOf(engines[last'.eng])) :
           ~Matches(PatternsOf(engines[last'.eng])[i][1], InputOf(last'.raw)))
     => NoMatchReported(engines[last'.eng], last'.trace, last'.exc,
                        engines'[last'.eng])]_vars

\* ------------------------------------------------------------------------
\* C19
\* ------------------------------------------------------------------------

\* The place of the first pattern of the map that passes the test, 0 when
\* none does
First(map, Test(_)) ==
  IF \E i \in Indices(map) : Test(map[i][1])
  THEN CHOOSE i \in Indices(map) : Test(map[i][1]) /\ \A j \in 1..(i - 1) : ~Test(map[j][1])
  ELSE 0

\* The place the two passes stop at: the first glob match, else the first
\* regex match, else 0
TwoPass(map, string) ==
  IF First(map, LAMBDA p : MatchesGlob(p, string)) > 0
  THEN First(map, LAMBDA p : MatchesGlob(p, string))
  ELSE First(map, LAMBDA p : MatchesRegex(p, string))

\* C19: the default option compiled from the pattern lines tries every
\* pattern as a glob in declaration order and, if no glob matches, every
\* pattern as a regex in declaration order; the first match in that order
\* gives the target the menu goes to, and when nothing matches the abort
\* signal is raised (the no-match message is sent, the menu stays).
C19_TwoPassOrder ==
  [][(last'.op = "parse_input" /\ ToPatterns(engines[last'.eng], last'.raw)) =>
       IF TwoPass(PatternsOf(engines[last'.eng]), InputOf(last'.raw)) > 0
       THEN engines'[last'.eng].nodename =
              Some(PatternsOf(engines[last'.eng])
                     [TwoPass(PatternsOf(engines[last'.eng]), InputOf(last'.raw))][2])
       ELSE NoMatchReported(engines[last'.eng], last'.trace, last'.exc,
                            engines'[last'.eng])]_vars

\* ------------------------------------------------------------------------
\* C20
\* ------------------------------------------------------------------------

\* The place of the earliest declared pattern that matches, 0 when none does
Earliest(map, string) == First(map, LAMBDA p : Matches(p, string))

\* C20: the patterns of a template node are tested in declaration
\* sequence: when the rerouter takes a target for an input, it is the
\* target of the earliest declared pattern that matches the input, as a
\* glob or as a regex.
C20_EarliestPatternWins ==
  [][(/\ last'.op = "parse_input" /\ ToPatterns(engines[last'.eng], last'.raw)
      /\ last'.exc = "none"
      /\ Earliest(PatternsOf(engines[last'.eng]), InputOf(last'.raw)) > 0)
     => engines'[last'.eng].nodename =
          Some(PatternsOf(engines[last'.eng])
                 [Earliest(PatternsOf(engines[last'.eng]), InputOf(last'.raw))][2])]_vars

\* ------------------------------------------------------------------------
\* C21
\* ------------------------------------------------------------------------

\* An argument of a call-syntax target that is positional, or that uses a
\* keyword name kept for the templating system
BadArgument(kwarg) ==
  \/ ~kwarg.eq
  \/ kwarg.key \in {"evmenu_goto", "evmenu_gotomap", "_current_nodename",
                    "evmenu_current_nodename", "evmenu_goto_callables"}

\* The template has an option or pattern line whose target has such an
\* argument
HasBadCall(tid) ==
  \E i \in Indices(TemplateOf(tid)) :
    \E j \in Indices(TemplateOf(tid)[i].lines) :
      /\ ~TemplateOf(tid)[i].lines[j].comment
      /\ \E k \in Indices(CallSyntax(TemplateOf(tid)[i].lines[j].goto).kwargs) :
           BadArgument(CallSyntax(TemplateOf(tid)[i].lines[j].goto).kwargs[k])

\* C21: compiling a template in which a call-syntax target has a
\* positional argument or uses a reserved keyword name fails with a
\* RuntimeError at compile time: nothing is stored on the caller (what it
\* held before is kept), and template2menu starts no menu.
C21_TemplateValidation ==
  [][(last'.op \in {"parse_menu_template", "template2menu"}
      /\ HasBadCall(last'.args.menudata)) =>
       /\ last'.exc = "RuntimeError"
       /\ actor' = actor
       /\ last'.trace = <<>>
       /\ last'.op = "template2menu" => ~engines'[last'.eng].made]_vars

\* The template with the target `go(a=1, 5)` was given to template2menu
\* while the caller held the content of another template: RuntimeError,
\* and the content is still the other one
C21_Witness ==
  /\ last.op = "template2menu" /\ last.args.menudata = "go(a=1, 5)"
  /\ last.exc = "RuntimeError"
  /\ actor.evmenu_template_contents = Some("other")

\* ------------------------------------------------------------------------
\* C22
\* ------------------------------------------------------------------------

\* The menu object is the running session of the caller, started from a
\* template
ActiveTemplateSession(e) ==
  /\ engines[e].made /\ ~engines[e].quitting /\ actor.evmenu = e
  /\ engines[e].menutree \in TemplateNames

\* C22: the content map a template session was started with stays as it
\* is while the session is active: whatever else is compiled, constructed
\* or closed on the caller, the caller holds the content of the template
\* the session was compiled from, so every node name of the tree resolves
\* to its compiled (text, options).
C22_ContentReadOnly ==
  \A e \in Engines :
    ActiveTemplateSession(e) =>
      /\ actor.evmenu_template_contents = Some(engines[e].menutree)
      /\ \A p \in MenuData(engines[e].menutree) :
           DictHas(ContentMap(engines[e].menutree), p[1])

\* ------------------------------------------------------------------------
\* C23
\* ------------------------------------------------------------------------

\* The node texts displayed in a call, in order
Texts(trace) == SelectSeq(trace, LAMBDA ev : IsMsg(ev, "nodetext"))

\* A caller nothing has run on yet
FreshWorld ==
  [World EXCEPT !.engines = [x \in Engines |-> NoEngine], !.actor = NoActor,
                !.counts = [x \in Engines |-> NoCounts]]

\* The world of a session that ran alone: the other menu objects never
\* were, and the caller holds the content the session was compiled from
AloneWorld(e) ==
  [World EXCEPT !.engines = [x \in Engines |-> IF x = e THEN engines[e] ELSE NoEngine],
                !.actor.evmenu_template_contents =
                   IF engines[e].menutree \in TemplateNames
                   THEN Some(engines[e].menutree) ELSE NoneV]

\* C23: the node texts a session displays, and the node it goes to, are
\* given by its menu tree, its start node and its inputs alone: starting
\* it displays what it displays on a fresh caller, and an input displays
\* what it displays when no other session was ever created, run or closed
\* on the caller.
C23_Determinism ==
  [][/\ last'.op = "template2menu" =>
          Texts(last'.trace) =
            Texts(template2menu(FreshWorld, last'.eng, last'.args.menudata, SharedCall).trace)
     /\ last'.op = "parse_input" =>
          /\ Texts(last'.trace) = Texts(parse_input(AloneWorld(last'.eng), last'.eng, last'.raw).trace)
          /\ engines'[last'.eng].nodename =
               parse_input(AloneWorld(last'.eng), last'.eng, last'.raw).engines[last'.eng].nodename]_vars

\* ------------------------------------------------------------------------
\* C24
\* ------------------------------------------------------------------------

\* The session is on a list node, displayed with its options
OnList(eng) ==
  /\ eng.made /\ ~eng.quitting /\ eng.menutree = "lists"
  /\ eng.nodename.some /\ eng.nodename.v \in ListNodes
  /\ eng.options.some /\ eng.nodetext.some

ListItems(eng) == ListDef(eng.nodename.v).option_list
ListPageSize(eng) == ListDef(eng.nodename.v).pagesize

\* ceil(n / p)
CeilDiv(n, p) == IF n % p = 0 THEN n \div p ELSE (n \div p) + 1

HasToken(eng, token) == \E p \in eng.options.v : p[1] = token
EntryOf(eng, token) == (CHOOSE p \in eng.options.v : p[1] = token)[2]

\* The items displayed: the descriptions of the numbered options
ShownItems(eng) ==
  SelectSeq(eng.nodetext.v.options,
            LAMBDA shown : \E j \in Indices(ItemNames) : ItemNames[j] = shown[2])

\* Items i*p+1 .. min((i+1)*p, n) of the list, numbered from 1
ItemsOfPage(items, p, i) ==
  [k \in 1..(IF (i + 1) * p < Len(items) THEN p ELSE Len(items) - i * p) |->
     <<NumStr(k), items[i * p + k]>>]

\* The page the `current` control names
CurrentPage(eng) == IndexOf(DictGet(EntryOf(eng, <<"c">>).goto_kwargs.d, "optionpage_index"))

Paged(eng, npages) ==
  /\ HasToken(eng, <<"c">>)
  /\ CurrentPage(eng) \in 0..(npages - 1)
  /\ ShownItems(eng) = ItemsOfPage(ListItems(eng), ListPageSize(eng), CurrentPage(eng))
  /\ HasToken(eng, <<"p">>) <=> CurrentPage(eng) > 0
  /\ HasToken(eng, <<"n">>) <=> CurrentPage(eng) < npages - 1

Unpaged(eng) ==
  /\ ~HasToken(eng, <<"c">>) /\ ~HasToken(eng, <<"p">>) /\ ~HasToken(eng, <<"n">>)
  /\ ShownItems(eng) = ItemsOfPage(ListItems(eng), ListPageSize(eng), 0)

\* C24: a list node over n > 0 items with page size p has ceil(n/p)
\* pages: the page displayed is one of them and shows its items; with more
\* than one page, page i offers `previous` if and only if i > 0 and `next`
\* if and only if i < ceil(n/p) - 1.
C24_Pagination ==
  \A e \in Engines :
    (OnList(engines[e]) /\ ListItems(engines[e]) # <<>>) =>
      IF CeilDiv(Len(ListItems(engines[e])), ListPageSize(engines[e])) > 1
      THEN Paged(engines[e], CeilDiv(Len(ListItems(engines[e])), ListPageSize(engines[e])))
      ELSE Unpaged(engines[e])

\* The list of 25 items with page size 10 is on its third page: items 21
\* to 25, a `previous` control and no `next`
C24_Witness ==
  /\ OnList(engines[1]) /\ engines[1].nodename.v = "index25"
  /\ CurrentPage(engines[1]) = 2
  /\ Len(ShownItems(engines[1])) = 5 /\ ShownItems(engines[1])[5] = <<<<"5">>, "i25">>
  /\ HasToken(engines[1], <<"p">>) /\ ~HasToken(engines[1], <<"n">>)
  /\ last.op = "parse_input" /\ last.raw = <<"n">>

\* ------------------------------------------------------------------------
\* C25
\* ------------------------------------------------------------------------

\* The page index a node was asked for, 0 when it was asked for none
AskedFor(eng) ==
  IF DictHas(eng.node_kwargs.d, "optionpage_index")
  THEN IndexOf(DictGet(eng.node_kwargs.d, "optionpage_index")) ELSE 0

\* The index put into [0, npages - 1]
Clamp(i, npages) == IF i < 0 THEN 0 ELSE IF i > npages - 1 THEN npages - 1 ELSE i

\* C25: the page a list node shows is the page asked for, put into
\* [0, page_count - 1]; a list node over an empty list shows no item
\* options and no paging controls.
C25_PageIndexClamped ==
  \A e \in Engines :
    OnList(engines[e]) =>
      IF ListItems(engines[e]) # <<>>
      THEN /\ ShownItems(engines[e]) =
                ItemsOfPage(ListItems(engines[e]), ListPageSize(engines[e]),
                            Clamp(AskedFor(engines[e]),
                                  CeilDiv(Len(ListItems(engines[e])), ListPageSize(engines[e]))))
           /\ HasToken(engines[e], <<"c">>) =>
                CurrentPage(engines[e]) =
                  Clamp(AskedFor(engines[e]),
                        CeilDiv(Len(ListItems(engines[e])), ListPageSize(engines[e])))
      ELSE /\ ShownItems(engines[e]) = <<>>
           /\ ~HasToken(engines[e], <<"c">>) /\ ~HasToken(engines[e], <<"p">>)
           /\ ~HasToken(engines[e], <<"n">>) /\ ~HasToken(engines[e], <<"1">>)

\* The list of 25 items was asked for page index 7 and shows its last
\* page, index 2
C25_Witness ==
  /\ OnList(engines[1]) /\ engines[1].nodename.v = "index25"
  /\ AskedFor(engines[1]) = 7
  /\ CurrentPage(engines[1]) = 2
  /\ ShownItems(engines[1])[1] = <<<<"1">>, "i21">>

\* ------------------------------------------------------------------------
\* C26
\* ------------------------------------------------------------------------

\* The page a list node shows, from the first item displayed
ShownPage(eng) ==
  CHOOSE i \in 0..Len(ListItems(eng)) :
    ShownItems(eng) = ItemsOfPage(ListItems(eng), ListPageSize(eng), i)

\* The token is the number k of an item displayed
ItemChosen(eng, token, k) ==
  /\ OnList(eng) /\ ShownItems(eng) # <<>>
  /\ k \in Indices(ShownItems(eng)) /\ token = NumStr(k)

\* `select` was called once, with this item, and with these choices when
\* it takes keyword arguments
Handed(trace, handler, item, page) ==
  /\ Count(trace, LAMBDA ev : ev.ev = "select") = 1
  /\ \E i \in Indices(trace) :
       /\ trace[i].ev = "select" /\ trace[i].arg = handler /\ trace[i].what = item
       /\ FuncDef(handler).kwargs => trace[i].kw = AvailableChoices(page)

\* C26: choosing the item option at position k of the displayed page i of
\* a list node whose select is a callable hands the callable the item at
\* index i*pagesize + (k-1) of the list, with the items of the visible
\* page as available_choices.
C26_SelectionResolves ==
  [][last'.op = "parse_input" =>
       \A k \in 1..10 :
         (/\ ItemChosen(engines[last'.eng], TokenOf(last'.raw), k)
          /\ ListDef(engines[last'.eng].nodename.v).select.t = "call")
         => Handed(last'.trace, ListDef(engines[last'.eng].nodename.v).select.v,
                   ListItems(engines[last'.eng])
                     [ShownPage(engines[last'.eng]) * ListPageSize(engines[last'.eng]) + k],
                   [j \in Indices(ShownItems(engines[last'.eng])) |->
                      ShownItems(engines[last'.eng])[j][2]])]_vars

\* ------------------------------------------------------------------------
\* C27
\* ------------------------------------------------------------------------

\* The node was run with the item as `selection` and the page as
\* `available_choices` in its keyword arguments
Received(trace, node, item, page) ==
  \E i \in Indices(trace) :
    /\ IsCallOf(trace[i], {"node"}) /\ trace[i].arg = node
    /\ trace[i].haskw
    /\ DictHas(trace[i].kw.d, "available_choices")
    /\ DictGet(trace[i].kw.d, "available_choices") = PageName(page)
    /\ DictHas(trace[i].kw.d, "selection")
    /\ DictGet(trace[i].kw.d, "selection") = item

\* C27: when the select of a list node is the name of a node, choosing
\* an item (by its plain number) goes to that node, and the node receives
\* the chosen item as `selection` and the page as `available_choices` in
\* its keyword arguments.
C27_SelectToNode ==
  [][last'.op = "parse_input" =>
       \A k \in 1..10 :
         (/\ ItemChosen(engines[last'.eng], TokenOf(last'.raw), k)
          /\ last'.raw = NumStr(k)
          /\ ListDef(engines[last'.eng].nodename.v).select.t = "name")
         => /\ engines'[last'.eng].nodename =
                 Some(ListDef(engines[last'.eng].nodename.v).select.v)
            /\ Received(last'.trace, ListDef(engines[last'.eng].nodename.v).select.v,
                        ListItems(engines[last'.eng])
                          [ShownPage(engines[last'.eng]) * ListPageSize(engines[last'.eng]) + k],
                        [j \in Indices(ShownItems(engines[last'.eng])) |->
                           ShownItems(engines[last'.eng])[j][2]])]_vars

\* ------------------------------------------------------------------------
\* C28
\* ------------------------------------------------------------------------

\* The constructor call asked for a durable menu that cannot be saved
SaveFails(a) == a.persistent /\ ~Picklable(a)

\* A running menu whose records could not be saved when it was made: its
\* cmdset was added without `permanent`
Unsaved(eng) == eng.made /\ eng.persistent /\ ~eng.cmdset_permanent

\* The step left the caller's saved attributes as they were
StoreUntouched ==
  /\ actor'.menutree_saved = actor.menutree_saved
  /\ actor'.menutree_saved_startnode = actor.menutree_saved_startnode

\* C28: when saving the durable-session records fails at construction,
\* the actor is warned, construction completes with the start node
\* displayed, and neither the construction's own transition nor any later
\* transition or close of that session touches the saved attributes.
C28_SaveFailureFallsBack ==
  [][/\ (last'.op = "init" /\ SaveFails(last'.args))
          => /\ \E i \in Indices(last'.trace) : IsMsg(last'.trace[i], "persistent_saving_error")
             /\ \E i \in Indices(last'.trace) : IsMsg(last'.trace[i], "nodetext")
             /\ last'.exc = "none"
             /\ StoreUntouched
     /\ (last'.op \in {"parse_input", "close_menu"} /\ Unsaved(engines[last'.eng]))
          => StoreUntouched]_vars

\* ------------------------------------------------------------------------
\* C29
\* ------------------------------------------------------------------------

\* A running menu in durable mode: its records were saved and its cmdset
\* was added permanently
Durable(eng) == eng.made /\ ~eng.quitting /\ eng.persistent /\ eng.cmdset_permanent

\* The saved start-node record names the node the menu is on
RecordNames(a, eng) ==
  /\ a.menutree_saved_startnode.some /\ eng.nodename.some
  /\ a.menutree_saved_startnode.v[1] = eng.nodename.v

\* The call ran a node as a goto target and displayed it
ShowedNode(trace) ==
  \E i \in Indices(trace) :
    i > 1 /\ IsMsg(trace[i], "nodetext") /\ IsCallOf(trace[i - 1], {"node"})

C30_DebugNotDurable ==
  [][/\ (last'.op = "init" /\ last'.args.debug /\ last'.exc = "none")
          => /\ ~engines'[last'.eng].cmdset_permanent
             /\ StoreUntouched
     /\ (last'.op = "parse_input" /\ engines[last'.eng].debug_mode) => StoreUntouched
     /\ (last'.op \in {"parse_input", "close_menu"} /\ engines[last'.eng].debug_mode
         /\ engines'[last'.eng].quitting)
          => /\ ~actor'.menutree_saved.some
             /\ ~actor'.menutree_saved_startnode.some]_vars

\* ------------------------------------------------------------------------
\* C31
\* ------------------------------------------------------------------------

\* The cleanup steps of close_menu
CleanupSteps == {"cmdset_remove", "detach", "template_remove"}

\* Event i of the trace is the exit hook of menu object e
IsHookOf(trace, i, e) == IsCallOf(trace[i], {"cmd_on_exit"}) /\ trace[i].eng = e

\* C31: whenever the exit hook of a closing session is called, every
\* cleanup step of that session (the cmdset removed, the menu detached from
\* the caller, the template content removed) has run before it and none
\* runs after it.
C31_HookAfterCleanup ==
  [][\A e \in Engines : \A i \in Indices(last'.trace) :
       (IsHookOf(last'.trace, i, e) /\ counts[e].cmd_on_exit = 0)
         => /\ \A step \in CleanupSteps :
                 \E j \in 1..(i - 1) : last'.trace[j] = StepEv(e, step)
            /\ \A j \in Indices(last'.trace) :
                 (j > i /\ last'.trace[j].eng = e) => ~(last'.trace[j].ev = "step"
                                                      /\ last'.trace[j].what \in CleanupSteps)]_vars

\* ------------------------------------------------------------------------
\* C32
\* ------------------------------------------------------------------------

\* The template parses: all its option lines are valid
Parses(tid) ==
  \A i \in 1..Len(TemplateOf(tid)) :
    \A j \in 1..Len(TemplateOf(tid)[i].lines) : ValidLine(TemplateOf(tid)[i].lines[j])

\* C32: template2menu with startnode=X starts the menu on node X of the
\* template, and fails when the template has no node X.
C32_TemplateStartnode ==
  [][(last'.op = "template2menu" /\ Parses(last'.args.menudata))
       => IF DictHas(MenuData(last'.args.menudata), last'.args.startnode)
          THEN /\ last'.exc = "none"
               /\ engines'[last'.eng].nodename = Some(last'.args.startnode)
          ELSE last'.exc = "EvMenuError"]_vars

\* ------------------------------------------------------------------------
\* C33
\* ------------------------------------------------------------------------

\* A callable or a node function raised the abort signal in the call
AbortRaised(trace) ==
  \E i \in Indices(trace) :
    /\ IsCallOf(trace[i], {"goto", "exec", "node", "exec_node"})
    /\ FuncDef(trace[i].arg).act = "raise"
    /\ FuncDef(trace[i].arg).exc = "EvMenuGotoAbortMessage"

\* C33: whichever goto callable, exec callable or node function raises
\* the abort signal, the one message of the dispatch is the abort message:
\* no failure message is sent (and with it nothing is logged), and no
\* error leaves parse_input.
C33_AbortIsNoError ==
  [][(last'.op = "parse_input" /\ AbortRaised(last'.trace)) =>
       /\ last'.exc = "none"
       /\ Count(last'.trace, LAMBDA ev : ev.ev = "msg") = 1
       /\ IsMsg(last'.trace[Len(last'.trace)], "abort_message")]_vars

\* ------------------------------------------------------------------------
\* C34
\* ------------------------------------------------------------------------

\* The options the node the menu is on returned
NodeOptions(eng) == FuncDef(DictGet(MenuData(eng.menutree), eng.nodename.v)).ret.opts

\* The (goto, goto_kwargs, exec, exec_kwargs) an option declares
Declared(dic) == Entry(dic.goto.tgt, dic.goto.kw, dic.exec.tgt, dic.exec.kw)

\* The option table maps the token to what the option declares
Mapped(eng, dic, token) ==
  /\ eng.options.some /\ DictHas(eng.options.v, token)
  /\ DictGet(eng.options.v, token) = Declared(dic)

\* Every alias of the option at position k, or its number when it has no
\* key, is in the option table
Tabled(eng, dic, k) ==
  IF dic.keyset THEN \A j \in 1..Len(dic.keys) : Mapped(eng, dic, OptionToken(dic.keys[j]))
  ELSE Mapped(eng, dic, NumStr(k))

\* The default option is kept apart: not displayed, under no key
KeptApart(eng, dic) ==
  /\ eng.default = Some(Declared(dic))
  /\ \A p \in eng.options.v : p[1] # OptionToken(DefaultKey)
  /\ \A j \in 1..Len(eng.nodetext.v.options) : eng.nodetext.v.options[j][1] # DefaultKey
  /\ Len(eng.nodetext.v.options) =
       Cardinality({k \in 1..Len(NodeOptions(eng)) : ~IsDefaultOption(NodeOptions(eng)[k])})

\* A transition displayed a node with options
ShowedOptions(trace, exc, eng) ==
  /\ ShowedNode(trace) /\ exc = "none"
  /\ eng.nodename.some /\ ~eng.quitting

BadPair(directive) == directive.form = "pair" /\ directive.kw.k # "dict"

\* Node function f returns an option with such a goto or exec
DeclaresBadPair(f) ==
  \E k \in 1..Len(FuncDef(f).ret.opts) :
    BadPair(FuncDef(f).ret.opts[k].goto) \/ BadPair(FuncDef(f).ret.opts[k].exec)

\* The token chooses an option of the current node whose goto names a node
\* that declares such a pair
LeadsToBadPair(eng, token) ==
  /\ IsOptionKey(eng, token)
  /\ DictGet(eng.options.v, token).goto.t = "name"
  /\ ~TargetTruthy(DictGet(eng.options.v, token).exec)
  /\ DictHas(MenuData(eng.menutree), DictGet(eng.options.v, token).goto.v)
  /\ DeclaresBadPair(DictGet(MenuData(eng.menutree), DictGet(eng.options.v, token).goto.v))

\* C35: a goto or exec written as a pair whose second element is no dict
\* is rejected with EvMenuError, before the node that declares it is run
\* or displayed, and the node name, the option table and the default of
\* the session stay as they were.
C35_BadPairRejected ==
  [][(last'.op = "parse_input" /\ LeadsToBadPair(engines[last'.eng], TokenOf(last'.raw)))
       => /\ last'.exc = "EvMenuError"
          /\ Count(last'.trace, LAMBDA ev : IsCallOf(ev, {"node"}) \/ IsMsg(ev, "nodetext")) = 0
          /\ engines'[last'.eng].nodename = engines[last'.eng].nodename
          /\ engines'[last'.eng].options = engines[last'.eng].options
          /\ engines'[last'.eng].default = engines[last'.eng].default]_vars

\* ------------------------------------------------------------------------
\* C36
\* ------------------------------------------------------------------------

\* The token chooses an option of a template node whose target is a call
\* of a registered callable
ChoosesCall(eng, token) ==
  /\ IsOptionKey(eng, token)
  /\ DictGet(eng.options.v, token).goto = Fn("_generated_goto_func")
  /\ CallSyntax(DictGet(DictGet(eng.options.v, token).goto_kwargs.d, "evmenu_goto")).match
  /\ CallSyntax(DictGet(DictGet(eng.options.v, token).goto_kwargs.d, "evmenu_goto")).funcname
       \in GotoCallables

\* The callable was called once, and with every keyword argument written
\* in the call
CalledOnceWithAll(trace, call) ==
  /\ Count(trace, LAMBDA ev : IsCallOf(ev, {"callable"}) /\ ev.arg = call.funcname) = 1
  /\ \A i \in Indices(trace) :
       (IsCallOf(trace[i], {"callable"}) /\ trace[i].arg = call.funcname)
         => \A j \in 1..Len(call.kwargs) :
              /\ DictHas(trace[i].kw.d, call.kwargs[j].key)
              /\ DictGet(trace[i].kw.d, call.kwargs[j].key) = call.kwargs[j].value

\* C36: choosing a template option whose target is `name(k1=v1, ...,
\* kn=vn)` with `name` a registered callable calls it exactly once, with
\* all n keyword arguments, for every n >= 0.
C36_CallableOnce ==
  [][(/\ last'.op = "parse_input"
      /\ ChoosesCall(engines[last'.eng], TokenOf(last'.raw)))
       => CalledOnceWithAll(last'.trace,
             CallSyntax(DictGet(DictGet(engines[last'.eng].options.v,
                                        TokenOf(last'.raw)).goto_kwargs.d, "evmenu_goto")))]_vars


\* ------------------------------------------------------------------------
\* C37: a closed menu stays closed
\* ------------------------------------------------------------------------

\* The menu object of slot e is taken off the caller at trace[i]
ClosedAt(trace, i, e) == IsStep(trace[i], "detach") /\ trace[i].eng = e

\* A node function run for menu object e, or a node text sent by it
NodeActivity(event, e) ==
  /\ event.eng = e
  /\ (IsCallOf(event, {"node", "exec_node"}) \/ IsMsg(event, "nodetext"))

\* The calls that construct a new menu object in a slot
Constructing == {"init", "template2menu", "reload"}

\* C37: once a menu object has been closed it runs no node function and
\* sends no node text any more, within the call that closed it (a goto or
\* exec callable closing its own menu) and in every later call; its fields
\* stay as they are and it is not stored on the caller again.
C37_ClosedAbsorbing ==
  /\ [](\A e \in Engines, i, j \in Indices(last.trace) :
          (i < j /\ ClosedAt(last.trace, i, e)) => ~NodeActivity(last.trace[j], e))
  /\ [][\A e \in Engines :
          (engines[e].made /\ engines[e].quitting
             /\ ~(last'.op \in Constructing /\ last'.eng = e)) =>
            /\ engines'[e] = engines[e]
            /\ actor'.evmenu # e
            /\ \A j \in Indices(last'.trace) : ~NodeActivity(last'.trace[j], e)]_vars


\* ------------------------------------------------------------------------
\* C38: a construction that fails
\* ------------------------------------------------------------------------

\* C38: when EvMenu(...) raises, the caller is as it was before the call:
\* the same menu object (or none) is stored on it, it has the same menu
\* command sets and the same saved attributes, and a menu object that was
\* stored on it before the call is still open.
C38_FailedConstruction ==
  [][(last'.op = "init" /\ last'.exc # "none") =>
       /\ actor' = actor
       /\ actor.evmenu # 0 => ~engines'[actor.evmenu].quitting]_vars


\* ------------------------------------------------------------------------
\* C39: a selection that leads nowhere
\* ------------------------------------------------------------------------

\* The select callable of list node f returns None
SelectsNothing(f) ==
  /\ ListDef(f).select.t = "call"
  /\ FuncDef(ListDef(f).select.v).act = "ret" /\ FuncDef(ListDef(f).select.v).ret = RNone

\* _select_parser was called and returned None: its select returns None,
\* or it found the choice invalid
LedNowhere(eng, trace) ==
  /\ \E i \in Indices(trace) : IsCallOf(trace[i], {"goto"}) /\ trace[i].arg \in Parsers
  /\ \/ SelectsNothing(eng.nodename.v)
     \/ \E i \in Indices(trace) : IsMsg(trace[i], "invalid_choice")

\* C39: when the item chosen on a list node leads to no other node, the
\* list node is displayed again with the page that was displayed when the
\* item was chosen, whichever page that was.
C39_SelectionKeepsPage ==
  [][\A k \in 1..10 :
       (/\ last'.op = "parse_input"
        /\ ItemChosen(engines[last'.eng], TokenOf(last'.raw), k)
        /\ LedNowhere(engines[last'.eng], last'.trace))
       => /\ OnList(engines'[last'.eng])
          /\ engines'[last'.eng].nodename = engines[last'.eng].nodename
          /\ ShownPage(engines'[last'.eng]) = ShownPage(engines[last'.eng])]_vars


\* ------------------------------------------------------------------------
\* C40: the node name, the option table and the default belong together
\* ------------------------------------------------------------------------

\* The option table and the default goto builds from what the node the
\* menu is on returns
TableOf(eng) ==
  OptionTable(NodeResult(FuncDef(DictGet(MenuData(eng.menutree), eng.nodename.v)).ret),
              eng.nodename.v)

\* C40: the node name of a menu is unset or a key of its menu tree, and
\* then the option table and the default of the menu are the ones built
\* from the options that node returns; no failed transition, built-in
\* command or aborted dispatch makes them differ.
C40_NodeAndTable ==
  \A e \in Engines :
    (engines[e].made /\ engines[e].nodename.some) =>
      /\ DictHas(MenuData(engines[e].menutree), engines[e].nodename.v)
      /\ engines[e].options = Some(TableOf(engines[e]).options)
      /\ engines[e].default = TableOf(engines[e]).default

====
